---- MODULE Spec2Model ----
(***************************************************************************)
(* Storage core of minidb: the page file (DiskManager), the pinning buffer *)
(* cache (BufferPoolManager) and its LRUReplacer.                          *)
(*                                                                         *)
(* A page's 4096 bytes are modelled by the two parts the cache and the     *)
(* disk manager look at: the page id stored in bytes 0..3 (id) and the     *)
(* payload written by clients (val).                                       *)
(***************************************************************************)
EXTENDS Integers, Sequences, FiniteSets, TLC

(* ------------------------------ bounds --------------------------------- *)
\* number of frames of the pool (pool_size_)
PoolSize == 2
\* num_pages_ is not allowed to grow beyond this
MaxPages == 2
\* the disk free list is not allowed to grow beyond this
MaxFreeLen == 2
\* a frame is not pinned more often than this
MaxPin == 2
\* payload values clients write are 0..MaxVal
MaxVal == 1

(* --------------------------- program constants -------------------------- *)
HEADER_PAGE_ID == 0
\* 0xDEADBEEF as the 32-bit pattern read as a signed integer
MAGIC_NUMBER == -559038737

Frames == 0 .. (PoolSize - 1)
\* page ids callers pass: MaxPages itself is always out of range
PageIds == 0 .. MaxPages
Vals == 0 .. MaxVal
NoFrame == -1

VARIABLES
    pages,        \* BufferPoolManager::pages_  : frame -> [id, val, pin, dirty]
    page_table,   \* BufferPoolManager::page_table_ : page id -> frame or NoFrame
    free_list,    \* BufferPoolManager::free_list_ : sequence of frames
    lru_list,     \* LRUReplacer::lru_list_ : front (index 1) = most recently unpinned
    num_pages,    \* DiskManager::num_pages_
    dm_free_list, \* DiskManager::free_list_ : sequence of page ids
    file,         \* the database file: file[i+1] is the content of slot i
    io_fail,      \* failbit of DiskManager::db_file_ (never cleared by the code)
    ret,          \* the last call and what it returned
    zero_order,   \* history: unpinned resident frames, the one whose pin count
                  \* reached 0 most recently first
    placed,       \* history: frames handed to the replacer and not taken back,
                  \* the one handed over most recently first
    live,         \* history: page ids handed out by AllocatePage and not
                  \* deallocated since
    expect,       \* history: <<id, payload>> of the latest unpin(id, true), kept while
                  \* only fetch and unpin calls, and new_page calls and payload
                  \* writes on other pages, follow it; <<>> otherwise
    root_page_id_, \* SimpleBTree::root_page_id_
    is_root_leaf_, \* SimpleBTree::is_root_leaf_
    kv,           \* history: key -> the value of its successful insert, or
                  \* NoValue when never inserted or removed since
    node_kind,    \* history: page id -> "leaf" / "internal" as the page was
                  \* created by the tree, "none" otherwise
    plain,        \* history: only searches, and inserts of distinct keys that
                  \* returned true, were called on the tree so far
    removes,      \* history: the number of remove calls so far
    held,         \* history: the pages a client besides the tree holds a pin on
    latch_,       \* BufferPoolManager::latch_: the thread holding it, 0 when free
    thr,          \* per thread: where it is in its call, the call and its result
    seq,          \* history: the cache state reached by running the calls one
                  \* after the other in the order they took the latch
    wrote,        \* history: <<id, buffer>> of the latest successful WritePage
                  \* of each page id by the client of the DiskManager
    last_page_id_ \* TableHeap::last_page_id_

vars == <<pages, page_table, free_list, lru_list, num_pages, dm_free_list,
          file, io_fail, ret, zero_order, placed, live, expect,
          root_page_id_, is_root_leaf_, kv, node_kind, plain, removes, held,
          latch_, thr, seq, wrote, last_page_id_>>

tree_vars == <<root_page_id_, is_root_leaf_, kv, node_kind, plain, removes, held>>
hist_vars == <<zero_order, placed, live, expect>>
thread_vars == <<latch_, thr, seq>>
client_vars == <<wrote, last_page_id_>>

hist_order == <<zero_order, placed>>

cache_vars == <<pages, page_table, free_list, lru_list>>
disk_vars == <<num_pages, dm_free_list, file, io_fail>>

(* ------------------------------ helpers -------------------------------- *)
Max(a, b) == IF a >= b THEN a ELSE b

Remove(s, x) == SelectSeq(s, LAMBDA y : y # x)

InSeq(s, x) == \E i \in 1 .. Len(s) : s[i] = x

Count(s, x) == Cardinality({i \in 1 .. Len(s) : s[i] = x})

(* -------------------------------- Page --------------------------------- *)
\* Page::ResetMemory: memset 0, pin_count_ 0, is_dirty_ false
ResetMemory == [id |-> 0, val |-> 0, pin |-> 0, dirty |-> FALSE]

\* the 4096 bytes of a frame, as they are written to the file
GetData(p) == [id |-> p.id, val |-> p.val]

ZeroData == [id |-> 0, val |-> 0]

(* ----------------------------- LRUReplacer ----------------------------- *)
\* LRUReplacer::Victim: the back of the list, or NoFrame if the list is empty
LRU_Victim(l) == IF Len(l) = 0 THEN NoFrame ELSE l[Len(l)]

\* the list after Victim popped the back
LRU_PopVictim(l) == IF Len(l) = 0 THEN l ELSE SubSeq(l, 1, Len(l) - 1)

\* a Pin that forgets to take the frame out of the list
LRU_PinKeeps(l, f) == l

\* LRUReplacer::Pin: remove the frame if tracked
LRU_Pin(l, f) == Remove(l, f)

\* an Unpin that pushes at the back, the end Victim pops
LRU_UnpinBack(l, f) == Remove(l, f) \o <<f>>

\* an Unpin that forgets to track the frame
LRU_UnpinDrops(l, f) == Remove(l, f)

\* an Unpin that leaves a tracked frame where it is
LRU_UnpinKeeps(l, f) == IF InSeq(l, f) THEN l ELSE <<f>> \o l

\* LRUReplacer::Unpin: remove any occurrence, push at the front
LRU_Unpin(l, f) == <<f>> \o Remove(l, f)

(* ----------------------------- DiskManager ----------------------------- *)
\* DiskManager::InitializeHeaderPage: slot 0 starts with the magic number
HeaderData == [id |-> MAGIC_NUMBER, val |-> 0]

\* a ReadPage that does not look at the stream state after seek and read
ReadOkIgnoresFailbit(id, np, f) == id < np /\ id < Len(f)

\* DiskManager::ReadPage succeeds: id in range, stream good, slot inside the file
ReadOk(id, np, f) == id < np /\ ~io_fail /\ id < Len(f)

\* the failbit after ReadPage(id): a read past the end of the file sets it and
\* nothing clears it, so every later seekg/seekp on the stream fails
ReadFailBit(id, np, f) == io_fail \/ (id < np /\ id >= Len(f))

\* a WritePage that never reports an error
WriteOkAlways == TRUE

\* DiskManager::WritePage succeeds unless the stream is in the failed state
WriteOk == ~io_fail

\* the file after a successful WritePage(id, data); a hole reads as zeros
WriteFile(f, id, data) ==
    [i \in 1 .. Max(Len(f), id + 1) |->
        IF i = id + 1 THEN data
        ELSE IF i <= Len(f) THEN f[i] ELSE ZeroData]

\* an AllocatePage that takes the oldest entry of the free list
AllocIdFront(fl, np) == IF Len(fl) > 0 THEN fl[1] ELSE np

\* DiskManager::AllocatePage: the id handed out
AllocId(fl, np) == IF Len(fl) > 0 THEN fl[Len(fl)] ELSE np

AllocFreeList(fl) == IF Len(fl) > 0 THEN SubSeq(fl, 1, Len(fl) - 1) ELSE fl

AllocNumPages(fl, np) == IF Len(fl) > 0 THEN np ELSE np + 1

\* the DiskManager exists: its constructor did not throw
Opened == ~(ret.op = "CloseReopen" /\ ret.res = "throw")

\* DiskManager::DeallocatePage throws for the header page and out of range ids
DeallocOk(id) == id # HEADER_PAGE_ID /\ id < num_pages


(* -------------------------- BufferPoolManager -------------------------- *)
Erase(pt, id) == [p \in PageIds |-> IF p = id THEN NoFrame ELSE pt[p]]

\* the call record: what was called, with which page id, what it returned,
\* the frame handed out, the frame evicted, and the frames for which
\* DiskManager::WritePage was called with their dirty bit at that moment
Ret(op, arg, res, frame, victim, writes) ==
    [op |-> op, arg |-> arg, res |-> res, frame |-> frame,
     victim |-> victim, writes |-> writes]

\* an eviction that writes every victim back, dirty or not
VictimAlwaysWrite(p) == TRUE

\* FindFreeFrame writes the victim back only if its dirty bit is set
VictimNeedsWrite(p) == p.dirty

\* BufferPoolManager::FindFreeFrame on the current state
FindFreeFrame ==
    IF Len(free_list) > 0
    THEN [ok |-> TRUE, frame |-> Head(free_list), victim |-> NoFrame,
          requeued |-> NoFrame,
          free_list |-> Tail(free_list), lru |-> lru_list,
          page_table |-> page_table, pages |-> pages,
          file |-> file, num_pages |-> num_pages, writes |-> {}]
    ELSE IF LRU_Victim(lru_list) # NoFrame
    THEN LET v == LRU_Victim(lru_list)
             vp == pages[v]
         IN  IF VictimNeedsWrite(vp) /\ ~WriteOk
             THEN [ok |-> FALSE, frame |-> NoFrame, victim |-> NoFrame,
                   requeued |-> v, free_list |-> free_list,
                   lru |-> LRU_Unpin(LRU_PopVictim(lru_list), v),
                   page_table |-> page_table, pages |-> pages,
                   file |-> file, num_pages |-> num_pages,
                   writes |-> {<<v, vp.dirty>>}]
             ELSE [ok |-> TRUE, frame |-> v, victim |-> v, requeued |-> NoFrame,
                   free_list |-> free_list,
                   lru |-> LRU_PopVictim(lru_list),
                   page_table |-> Erase(page_table, vp.id),
                   pages |-> [pages EXCEPT ![v] = ResetMemory],
                   file |-> IF VictimNeedsWrite(vp) THEN WriteFile(file, vp.id, GetData(vp))
                            ELSE file,
                   num_pages |-> IF VictimNeedsWrite(vp) THEN Max(num_pages, vp.id + 1)
                                 ELSE num_pages,
                   writes |-> IF VictimNeedsWrite(vp) THEN {<<v, vp.dirty>>}
                              ELSE {}]
    ELSE [ok |-> FALSE, frame |-> NoFrame, victim |-> NoFrame,
          requeued |-> NoFrame, free_list |-> free_list, lru |-> lru_list,
          page_table |-> page_table, pages |-> pages,
          file |-> file, num_pages |-> num_pages, writes |-> {}]

\* BufferPoolManager::UpdatePage: stamp the id, pin, enter in the directory
UpdatePageFrame(p, page_id) == [p EXCEPT !.id = page_id, !.pin = p.pin + 1]

UpdatePageTable(pt, page_id, frame_id) == [pt EXCEPT ![page_id] = frame_id]

\* zero_order after FindFreeFrame: an evicted frame is no longer resident
ZeroAfterFind(r) == IF r.victim # NoFrame THEN Remove(zero_order, r.victim)
                    ELSE zero_order

\* placed after FindFreeFrame: the victim was taken out of the replacer, and
\* handed back to it when its write-back failed
PlacedAfterFind(r) == IF r.victim # NoFrame THEN Remove(placed, r.victim)
                      ELSE IF r.requeued # NoFrame
                      THEN <<r.requeued>> \o Remove(placed, r.requeued)
                      ELSE placed

\* BufferPoolManager::FetchPage
FetchPage(id) ==
    /\ UNCHANGED <<tree_vars, thread_vars, client_vars>>
    /\ IF page_table[id] # NoFrame
       THEN LET f == page_table[id] IN
            /\ pages[f].pin < MaxPin
            /\ pages' = [pages EXCEPT ![f].pin = @ + 1]
            /\ lru_list' = LRU_Pin(lru_list, f)
            /\ zero_order' = Remove(zero_order, f)
            /\ placed' = Remove(placed, f)
            /\ ret' = Ret("FetchPage", id, "page", f, NoFrame, {})
            /\ UNCHANGED <<page_table, free_list, disk_vars, live, expect>>
       ELSE LET r == FindFreeFrame IN
            IF ~r.ok
            THEN /\ lru_list' = r.lru
                 /\ placed' = PlacedAfterFind(r)
                 /\ ret' = Ret("FetchPage", id, "null", NoFrame, NoFrame, r.writes)
                 /\ UNCHANGED <<pages, page_table, free_list, disk_vars,
                                zero_order, live, expect>>
            ELSE IF ~ReadOk(id, r.num_pages, r.file)
            THEN /\ pages' = r.pages
                 /\ page_table' = r.page_table
                 /\ free_list' = Append(r.free_list, r.frame)
                 /\ lru_list' = r.lru
                 /\ file' = r.file
                 /\ num_pages' = r.num_pages
                 /\ io_fail' = ReadFailBit(id, r.num_pages, r.file)
                 /\ zero_order' = ZeroAfterFind(r)
                 /\ placed' = PlacedAfterFind(r)
                 /\ ret' = Ret("FetchPage", id, "null", NoFrame, r.victim, r.writes)
                 /\ UNCHANGED <<dm_free_list, live, expect>>
            ELSE /\ pages' = [r.pages EXCEPT ![r.frame] =
                                 UpdatePageFrame([@ EXCEPT !.id = r.file[id + 1].id,
                                                           !.val = r.file[id + 1].val],
                                                 id)]
                 /\ page_table' = UpdatePageTable(r.page_table, id, r.frame)
                 /\ free_list' = r.free_list
                 /\ lru_list' = LRU_Pin(r.lru, r.frame)
                 /\ file' = r.file
                 /\ num_pages' = r.num_pages
                 /\ zero_order' = ZeroAfterFind(r)
                 /\ placed' = PlacedAfterFind(r)
                 /\ ret' = Ret("FetchPage", id, "page", r.frame, r.victim, r.writes)
                 /\ UNCHANGED <<dm_free_list, io_fail, live, expect>>

\* expect after a call the comparison does not carry over
NoExpect == <<>>

\* expect after new_page or a payload write on page id
ExpectOther(id) == IF expect # <<>> /\ expect[1] = id THEN NoExpect ELSE expect

\* BufferPoolManager::UnpinPage
UnpinPage(id, is_dirty) ==
    /\ UNCHANGED <<tree_vars, thread_vars, client_vars>>
    /\ IF page_table[id] = NoFrame \/ pages[page_table[id]].pin <= 0
       THEN /\ ret' = Ret("UnpinPage", id, "false", NoFrame, NoFrame, {})
            /\ UNCHANGED <<cache_vars, disk_vars, hist_order, live, expect>>
       ELSE LET f == page_table[id] IN
            /\ pages' = [pages EXCEPT ![f].dirty = (@ \/ is_dirty), ![f].pin = @ - 1]
            /\ lru_list' = IF pages[f].pin - 1 = 0 THEN LRU_Unpin(lru_list, f)
                           ELSE lru_list
            /\ zero_order' = IF pages[f].pin - 1 = 0
                             THEN <<f>> \o Remove(zero_order, f)
                             ELSE zero_order
            /\ placed' = IF pages[f].pin - 1 = 0
                         THEN <<f>> \o Remove(placed, f)
                         ELSE placed
            /\ expect' = IF is_dirty THEN <<id, pages[f].val>> ELSE expect
            /\ ret' = Ret("UnpinPage", id, "true", f, NoFrame, {})
            /\ UNCHANGED <<page_table, free_list, disk_vars, live>>

\* BufferPoolManager::FlushPage
FlushPage(id) ==
    /\ UNCHANGED <<tree_vars, thread_vars, client_vars>>
    /\ IF page_table[id] = NoFrame
       THEN /\ ret' = Ret("FlushPage", id, "false", NoFrame, NoFrame, {})
            /\ expect' = NoExpect
            /\ UNCHANGED <<cache_vars, disk_vars, hist_order, live>>
       ELSE LET f == page_table[id] IN
            IF WriteOk
            THEN /\ file' = WriteFile(file, id, GetData(pages[f]))
                 /\ num_pages' = Max(num_pages, id + 1)
                 /\ pages' = [pages EXCEPT ![f].dirty = FALSE]
                 /\ ret' = Ret("FlushPage", id, "true", f, NoFrame,
                               {<<f, pages[f].dirty>>})
                 /\ expect' = NoExpect
                 /\ UNCHANGED <<page_table, free_list, lru_list, dm_free_list,
                                io_fail, hist_order, live>>
            ELSE /\ ret' = Ret("FlushPage", id, "false", f, NoFrame,
                               {<<f, pages[f].dirty>>})
                 /\ expect' = NoExpect
                 /\ UNCHANGED <<cache_vars, disk_vars, hist_order, live>>

\* BufferPoolManager::NewPage
NewPage ==
    /\ UNCHANGED <<tree_vars, thread_vars, client_vars>>
    /\ LET r == FindFreeFrame IN
       IF ~r.ok
       THEN /\ lru_list' = r.lru
            /\ placed' = PlacedAfterFind(r)
            /\ ret' = Ret("NewPage", NoFrame, "null", NoFrame, NoFrame, r.writes)
            /\ UNCHANGED <<pages, page_table, free_list, disk_vars, zero_order,
                           live, expect>>
       ELSE LET page_id == AllocId(dm_free_list, r.num_pages) IN
            /\ AllocNumPages(dm_free_list, r.num_pages) <= MaxPages
            /\ dm_free_list' = AllocFreeList(dm_free_list)
            /\ num_pages' = AllocNumPages(dm_free_list, r.num_pages)
            /\ pages' = [r.pages EXCEPT ![r.frame] =
                            UpdatePageFrame([ResetMemory EXCEPT !.id = page_id,
                                                                !.dirty = TRUE],
                                            page_id)]
            /\ page_table' = UpdatePageTable(r.page_table, page_id, r.frame)
            /\ free_list' = r.free_list
            /\ lru_list' = LRU_Pin(r.lru, r.frame)
            /\ file' = r.file
            /\ zero_order' = ZeroAfterFind(r)
            /\ placed' = PlacedAfterFind(r)
            /\ live' = live \cup {page_id}
            /\ expect' = ExpectOther(page_id)
            /\ ret' = Ret("NewPage", page_id, "page", r.frame, r.victim, r.writes)
            /\ UNCHANGED io_fail

\* BufferPoolManager::DeletePage; when DeallocatePage throws, the frame has
\* already been released
DeletePage(id) ==
    /\ UNCHANGED <<tree_vars, thread_vars, client_vars>>
    /\ IF page_table[id] # NoFrame /\ pages[page_table[id]].pin > 0
       THEN /\ ret' = Ret("DeletePage", id, "false", NoFrame, NoFrame, {})
            /\ expect' = NoExpect
            /\ UNCHANGED <<cache_vars, disk_vars, hist_order, live>>
       ELSE /\ DeallocOk(id) => Len(dm_free_list) < MaxFreeLen
            /\ IF page_table[id] # NoFrame
               THEN LET f == page_table[id] IN
                    /\ lru_list' = LRU_Pin(lru_list, f)
                    /\ page_table' = Erase(page_table, id)
                    /\ pages' = [pages EXCEPT ![f] = ResetMemory]
                    /\ free_list' = Append(free_list, f)
                    /\ zero_order' = Remove(zero_order, f)
                    /\ placed' = Remove(placed, f)
               ELSE UNCHANGED <<cache_vars, hist_order>>
            /\ dm_free_list' = IF DeallocOk(id) THEN Append(dm_free_list, id)
                               ELSE dm_free_list
            /\ live' = IF DeallocOk(id) THEN live \ {id} ELSE live
            /\ ret' = Ret("DeletePage", id,
                          IF DeallocOk(id) THEN "true" ELSE "throw",
                          page_table[id], NoFrame, {})
            /\ expect' = NoExpect
            /\ UNCHANGED <<num_pages, file, io_fail>>

\* a FlushAllPages that stops after the first dirty page
DirtyResidentFirst ==
    {p \in PageIds : /\ page_table[p] # NoFrame /\ pages[page_table[p]].dirty
                     /\ \A q \in PageIds :
                            (page_table[q] # NoFrame /\ pages[page_table[q]].dirty)
                                => p <= q}

\* the resident dirty pages FlushAllPages calls WritePage for
DirtyResident == {p \in PageIds : page_table[p] # NoFrame
                                  /\ pages[page_table[p]].dirty}

\* BufferPoolManager::FlushAllPages (also run by the destructor)
FlushAllPages ==
    /\ UNCHANGED <<tree_vars, thread_vars, client_vars>>
    /\ IF WriteOk /\ DirtyResident # {}
       THEN LET top == CHOOSE p \in DirtyResident :
                           \A q \in DirtyResident : q <= p
            IN  /\ file' = [i \in 1 .. Max(Len(file), top + 1) |->
                               IF (i - 1) \in DirtyResident
                               THEN GetData(pages[page_table[i - 1]])
                               ELSE IF i <= Len(file) THEN file[i]
                               ELSE ZeroData]
                /\ num_pages' = Max(num_pages, top + 1)
                /\ pages' = [f \in Frames |->
                               IF \E p \in DirtyResident : page_table[p] = f
                               THEN [pages[f] EXCEPT !.dirty = FALSE]
                               ELSE pages[f]]
       ELSE UNCHANGED <<file, num_pages, pages>>
    /\ ret' = Ret("FlushAllPages", NoFrame, "void", NoFrame, NoFrame,
                  {<<page_table[p], pages[page_table[p]].dirty>> :
                      p \in DirtyResident})
    /\ expect' = NoExpect
    /\ UNCHANGED <<page_table, free_list, lru_list, dm_free_list, io_fail,
                   hist_order, live>>

\* a caller holding a pin writes into the payload (Page::GetDataArea)
WriteData(f, v) ==
    /\ UNCHANGED <<tree_vars, thread_vars, client_vars>>
    /\ pages[f].pin > 0
    /\ pages[f].val # v
    /\ pages' = [pages EXCEPT ![f].val = v]
    /\ expect' = ExpectOther(pages[f].id)
    /\ ret' = Ret("WriteData", pages[f].id, "void", f, NoFrame, {})
    /\ UNCHANGED <<page_table, free_list, lru_list, disk_vars, hist_order, live>>

\* DiskManager::AllocatePage called directly, the page count staying within max
AllocatePageWithin(max) ==
    /\ Opened
    /\ UNCHANGED <<tree_vars, thread_vars, client_vars>>
    /\ AllocNumPages(dm_free_list, num_pages) <= max
    /\ dm_free_list' = AllocFreeList(dm_free_list)
    /\ num_pages' = AllocNumPages(dm_free_list, num_pages)
    /\ live' = live \cup {AllocId(dm_free_list, num_pages)}
    /\ ret' = Ret("AllocatePage", AllocId(dm_free_list, num_pages), "id",
                  NoFrame, NoFrame, {})
    /\ expect' = NoExpect
    /\ UNCHANGED <<cache_vars, file, io_fail, hist_order>>

AllocatePage == AllocatePageWithin(MaxPages)

\* DiskManager::DeallocatePage called directly
DeallocatePageWithin(id, max) ==
    /\ Opened
    /\ UNCHANGED <<tree_vars, thread_vars, client_vars>>
    /\ DeallocOk(id) => Len(dm_free_list) < max
    /\ dm_free_list' = IF DeallocOk(id) THEN Append(dm_free_list, id)
                       ELSE dm_free_list
    /\ live' = IF DeallocOk(id) THEN live \ {id} ELSE live
    /\ ret' = Ret("DeallocatePage", id,
                  IF DeallocOk(id) THEN "void" ELSE "throw",
                  NoFrame, NoFrame, {})
    /\ expect' = NoExpect
    /\ UNCHANGED <<cache_vars, num_pages, file, io_fail, hist_order>>

DeallocatePage(id) == DeallocatePageWithin(id, MaxFreeLen)

(* ------------------------------ SimpleBTree ---------------------------- *)
\* LeafNode::MAX_KEYS and InternalNode::MAX_KEYS: 10 in the source, scaled
\* down so that leaf splits, internal splits and new roots happen within
\* a few inserts
MAX_KEYS == 2
\* number of frames of the pool the tree runs on
TreePoolSize == 4
\* num_pages_ is not allowed to grow beyond this under the tree
TreeMaxPages == 9
\* keys passed to the tree are 1..MaxKey
MaxKey == 5
\* a frame is not pinned more often than this under the tree
TreeMaxPin == 2
\* a client besides the tree holds at most this many pages
MaxHeld == 1
\* remove is not called more often than this
MaxRemoves == 1

\* std::numeric_limits<uint32_t>::max(), the 32-bit pattern read as a signed
\* integer; as a page id it is above every page count
INVALID_PAGE_ID == -1

TreeFrames == 0 .. (TreePoolSize - 1)
TreePageIds == 0 .. (TreeMaxPages - 1)
Keys == 1 .. MaxKey

\* The data area of a page as 32-bit words, index 1 for byte offset 0.
\*   LeafNode    : num_keys, keys[MAX_KEYS], values[MAX_KEYS] (RID: page_id,
\*                 slot_num, 8 bytes), next_leaf, parent
\*   InternalNode: num_keys, keys[MAX_KEYS], children[MAX_KEYS + 1], parent
\* Both structs are laid over the same bytes by reinterpret_cast.
NodeWords == 3 * MAX_KEYS + 3
NumKeysAt == 1
KeyAt(i) == 2 + i
ValueAt(i) == MAX_KEYS + 2 + 2 * i
NextLeafAt == 3 * MAX_KEYS + 2
LeafParentAt == 3 * MAX_KEYS + 3
ChildAt(i) == MAX_KEYS + 2 + i
InternalParentAt == 2 * MAX_KEYS + 3

ZeroWords == [i \in 1 .. NodeWords |-> 0]

NumKeys(n) == n[NumKeysAt]
Key(n, i) == n[KeyAt(i)]
Child(n, i) == n[ChildAt(i)]

Min(S) == CHOOSE x \in S : \A y \in S : x <= y

\* Page::ResetMemory on a frame whose data area is seen as words
NodeResetMemory == [id |-> 0, val |-> ZeroWords, pin |-> 0, dirty |-> FALSE]

NodeZeroData == [id |-> 0, val |-> ZeroWords]

\* the header page: magic number, the data area all zero
NodeHeaderData == [id |-> MAGIC_NUMBER, val |-> ZeroWords]

\* a WritePage that ignores the seek and writes at the end of the file
NodeWriteAtEnd(f, id, data) == Append(f, data)

\* the file after a successful WritePage(id, data); a hole reads as zeros
NodeWriteFile(f, id, data) ==
    [i \in 1 .. Max(Len(f), id + 1) |->
        IF i = id + 1 THEN data
        ELSE IF i <= Len(f) THEN f[i] ELSE NodeZeroData]

(* The buffer pool calls as functions of the state s they are made in: the  *)
(* tree makes several of them within one of its operations.                 *)
Resident(s, id) == id \in DOMAIN s.page_table /\ s.page_table[id] # NoFrame

\* no frame on the free list and none in the replacer
NoFrameLeft(s) == Len(s.free_list) = 0 /\ Len(s.lru_list) = 0

\* DiskManager::ReadPage(id) succeeds in s
ReadOkIn(s, id) ==
    id >= 0 /\ id < s.num_pages /\ ~s.io_fail /\ id < Len(s.file)

ReadFailBitIn(s, id) ==
    s.io_fail \/ (id >= 0 /\ id < s.num_pages /\ id >= Len(s.file))

\* DiskManager::WritePage of the frame content p seeks to byte
\* 4294967295 * PAGE_SIZE, 4096 bytes below 16 TiB: the write of a whole
\* page there fails on a file system whose files end at 16 TiB - 1
WriteTooFar(s, p) == p.id = INVALID_PAGE_ID

\* DiskManager::WritePage of the frame content p throws in s
WriteFailsIn(s, p) == s.io_fail \/ WriteTooFar(s, p)

\* num_pages_ after a successful WritePage(id): page_id + 1 when
\* page_id >= num_pages_
NumPagesAfterWrite(np, id) == Max(np, id + 1)

\* BufferPoolManager::FindFreeFrame in s, the eviction of the victim v
EvictIn(s, v) ==
    IF VictimNeedsWrite(s.pages[v]) /\ WriteFailsIn(s, s.pages[v])
    THEN [ok |-> FALSE, frame |-> NoFrame,
          s |-> [s EXCEPT !.lru_list = LRU_Unpin(LRU_PopVictim(@), v),
                          !.io_fail = TRUE]]
    ELSE [ok |-> TRUE, frame |-> v,
          s |-> [s EXCEPT
                   !.lru_list = LRU_PopVictim(@),
                   !.page_table = [p \in DOMAIN @ |->
                                      IF p = s.pages[v].id THEN NoFrame ELSE @[p]],
                   !.pages = [@ EXCEPT ![v] = NodeResetMemory],
                   !.file = IF VictimNeedsWrite(s.pages[v])
                            THEN NodeWriteFile(@, s.pages[v].id,
                                               GetData(s.pages[v]))
                            ELSE @,
                   !.num_pages = IF VictimNeedsWrite(s.pages[v])
                                 THEN NumPagesAfterWrite(@, s.pages[v].id)
                                 ELSE @]]

\* BufferPoolManager::FindFreeFrame in s
FindFreeFrameIn(s) ==
    IF Len(s.free_list) > 0
    THEN [ok |-> TRUE, frame |-> Head(s.free_list),
          s |-> [s EXCEPT !.free_list = Tail(@)]]
    ELSE IF LRU_Victim(s.lru_list) # NoFrame
    THEN EvictIn(s, LRU_Victim(s.lru_list))
    ELSE [ok |-> FALSE, frame |-> NoFrame, s |-> s]

\* s after a cache call that found no frame: starved records that every
\* frame was pinned
Starve(s0, s) == [s EXCEPT !.starved = @ \/ NoFrameLeft(s0)]

\* BufferPoolManager::FetchPage(id) of a page that is not resident, r being
\* what FindFreeFrame returned
FetchMissIn(s, r, id) ==
    IF ~r.ok
    THEN [frame |-> NoFrame, s |-> Starve(s, r.s)]
    ELSE IF ~ReadOkIn(r.s, id)
    THEN [frame |-> NoFrame,
          s |-> [r.s EXCEPT !.free_list = Append(@, r.frame),
                            !.io_fail = ReadFailBitIn(r.s, id)]]
    ELSE [frame |-> r.frame,
          s |-> [r.s EXCEPT
                   !.pages[r.frame] =
                       UpdatePageFrame([@ EXCEPT !.id = r.s.file[id + 1].id,
                                                 !.val = r.s.file[id + 1].val],
                                       id),
                   !.page_table[id] = r.frame,
                   !.lru_list = LRU_Pin(@, r.frame)]]

\* BufferPoolManager::FetchPage(id) in s: the frame handed out (NoFrame for
\* nullptr) and the state after the call
FetchPageIn(s, id) ==
    IF Resident(s, id)
    THEN [frame |-> s.page_table[id],
          s |-> [s EXCEPT !.pages[s.page_table[id]].pin = @ + 1,
                          !.lru_list = LRU_Pin(@, s.page_table[id])]]
    ELSE FetchMissIn(s, FindFreeFrameIn(s), id)

\* BufferPoolManager::UnpinPage(id, is_dirty) in s
UnpinPageIn(s, id, is_dirty) ==
    IF ~Resident(s, id) \/ s.pages[s.page_table[id]].pin <= 0
    THEN [ok |-> FALSE, s |-> s]
    ELSE LET f == s.page_table[id] IN
         [ok |-> TRUE,
          s |-> [s EXCEPT !.pages[f].dirty = (@ \/ is_dirty),
                          !.pages[f].pin = @ - 1,
                          !.lru_list = IF s.pages[f].pin - 1 = 0
                                       THEN LRU_Unpin(@, f) ELSE @]]

\* BufferPoolManager::NewPage once FindFreeFrame returned r; over records
\* that the page count would pass TreeMaxPages
NewPageOn(s, r) ==
    IF ~r.ok
    THEN [frame |-> NoFrame, id |-> INVALID_PAGE_ID, s |-> Starve(s, r.s)]
    ELSE IF AllocNumPages(r.s.dm_free_list, r.s.num_pages) > TreeMaxPages
    THEN [frame |-> NoFrame, id |-> INVALID_PAGE_ID,
          s |-> [s EXCEPT !.over = TRUE]]
    ELSE LET page_id == AllocId(r.s.dm_free_list, r.s.num_pages) IN
         [frame |-> r.frame, id |-> page_id,
          s |-> [r.s EXCEPT
                   !.dm_free_list = AllocFreeList(@),
                   !.num_pages = AllocNumPages(r.s.dm_free_list, @),
                   !.pages[r.frame] =
                       UpdatePageFrame([NodeResetMemory EXCEPT !.id = page_id,
                                                               !.dirty = TRUE],
                                       page_id),
                   !.page_table[page_id] = r.frame,
                   !.lru_list = LRU_Pin(@, r.frame)]]

\* BufferPoolManager::NewPage in s
NewPageIn(s) == NewPageOn(s, FindFreeFrameIn(s))

(* Nodes, reached through a pointer into the data area of frame f.          *)
Node(s, f) == s.pages[f].val

SetNode(s, f, n) == [s EXCEPT !.pages[f].val = n]

SetWord(s, f, at, w) == [s EXCEPT !.pages[f].val[at] = w]

\* a dereference of nullptr: the operation does not return
Crash(s) == [s EXCEPT !.crash = TRUE]

\* placement new LeafNode(): num_keys 0, every values[i] = RID() that is
\* (INVALID_PAGE_ID, 0), next_leaf and parent INVALID_PAGE_ID; keys untouched
LeafNew(n) ==
    [i \in 1 .. NodeWords |->
        IF i = NumKeysAt THEN 0
        ELSE IF i >= ValueAt(0) /\ i <= ValueAt(MAX_KEYS - 1) + 1
        THEN (IF (i - ValueAt(0)) % 2 = 0 THEN INVALID_PAGE_ID ELSE 0)
        ELSE IF i = NextLeafAt \/ i = LeafParentAt THEN INVALID_PAGE_ID
        ELSE n[i]]

\* placement new InternalNode(): num_keys 0, parent INVALID_PAGE_ID
InternalNew(n) ==
    [n EXCEPT ![NumKeysAt] = 0, ![InternalParentAt] = INVALID_PAGE_ID]

\* LeafNode::FindKey: binary search over keys[left .. right]
RECURSIVE BinarySearch(_, _, _, _)
BinarySearch(n, key, left, right) ==
    IF left > right THEN left
    ELSE LET mid == (left + right) \div 2 IN
         IF Key(n, mid) = key THEN mid
         ELSE IF Key(n, mid) < key THEN BinarySearch(n, key, mid + 1, right)
         ELSE BinarySearch(n, key, left, mid - 1)

FindKey(n, key) == BinarySearch(n, key, 0, NumKeys(n) - 1)

\* a node that always reports itself full
IsFullAlways(n) == TRUE

\* LeafNode::IsFull and InternalNode::IsFull
IsFull(n) == NumKeys(n) >= MAX_KEYS

\* the key is stored at the position FindKey returns
HasKey(n, key) ==
    FindKey(n, key) < NumKeys(n) /\ Key(n, FindKey(n, key)) = key

\* LeafNode::Insert: the node after a successful insert of (key, rid)
LeafInsert(n, key, rid) ==
    LET pos == FindKey(n, key)
        nk == NumKeys(n)
    IN  [i \in 1 .. NodeWords |->
            IF i = NumKeysAt THEN nk + 1
            ELSE IF i > KeyAt(pos) /\ i <= KeyAt(nk) THEN n[i - 1]
            ELSE IF i = KeyAt(pos) THEN key
            ELSE IF i > ValueAt(pos) + 1 /\ i <= ValueAt(nk) + 1 THEN n[i - 2]
            ELSE IF i = ValueAt(pos) THEN rid[1]
            ELSE IF i = ValueAt(pos) + 1 THEN rid[2]
            ELSE n[i]]

\* LeafNode::Insert returns true
LeafInsertOk(n, key) == ~IsFull(n) /\ ~HasKey(n, key)

\* LeafNode::Remove: the node after a successful remove of key
LeafRemove(n, key) ==
    LET pos == FindKey(n, key)
        nk == NumKeys(n)
    IN  [i \in 1 .. NodeWords |->
            IF i = NumKeysAt THEN nk - 1
            ELSE IF i >= KeyAt(pos) /\ i <= KeyAt(nk - 2) THEN n[i + 1]
            ELSE IF i >= ValueAt(pos) /\ i <= ValueAt(nk - 2) + 1 THEN n[i + 2]
            ELSE n[i]]

\* InternalNode::FindChild: the child after the keys that are <= key
FindChild(n, key) ==
    Child(n, Min({j \in 0 .. NumKeys(n) :
                     j = NumKeys(n) \/ ~(key >= Key(n, j))}))

\* InternalNode::Insert: the node after inserting key with its right child
InternalInsert(n, key, child) ==
    LET nk == NumKeys(n)
        pos == Min({j \in 0 .. nk : j = nk \/ ~(key > Key(n, j))})
    IN  [i \in 1 .. NodeWords |->
            IF i = NumKeysAt THEN nk + 1
            ELSE IF i > KeyAt(pos) /\ i <= KeyAt(nk) THEN n[i - 1]
            ELSE IF i = KeyAt(pos) THEN key
            ELSE IF i > ChildAt(pos + 1) /\ i <= ChildAt(nk + 1) THEN n[i - 1]
            ELSE IF i = ChildAt(pos + 1) THEN child
            ELSE n[i]]

(* The tree's operations as functions of the state s: s.root and s.leaf are *)
(* root_page_id_ and is_root_leaf_, s.kind the history of page creations.   *)
IsEmpty(s) == s.root = INVALID_PAGE_ID

\* the pages on which the call running in s holds a pin: those whose pin
\* count is above the one they had when the call was made
PinsTaken(s) ==
    {p \in DOMAIN s.page_table :
        /\ s.page_table[p] # NoFrame
        /\ s.pages[s.page_table[p]].pin >
               (IF page_table[p] # NoFrame THEN pages[page_table[p]].pin ELSE 0)}

\* history: r is what FetchPage or NewPage returned to the tree; the pages
\* pinned together at this moment of the call are added to s.seen
Pinning(r) == [r EXCEPT !.s.seen = @ \cup {PinsTaken(r.s)}]

\* history: the call running in s calls Insert again after a leaf split
Retrying(s) == [s EXCEPT !.retries = @ + 1]

\* history: the call running in s calls InsertIntoParent again after the
\* split of the parent
Promoting(s) == [s EXCEPT !.promotions = @ + 1]

\* SimpleBTree::GetLeafNode and GetInternalNode: FetchPage, the pointer being
\* the frame's data area
GetLeafNode(s, page_id) == Pinning(FetchPageIn(s, page_id))

GetInternalNode(s, page_id) == Pinning(FetchPageIn(s, page_id))

\* a fetched node g together with the id of its page
WithId(id, g) == [id |-> id, frame |-> g.frame, s |-> g.s]

\* SimpleBTree::CreateLeafPage once NewPage returned r
InitLeafPage(r) ==
    IF r.frame = NoFrame
    THEN [id |-> INVALID_PAGE_ID, s |-> r.s]
    ELSE [id |-> r.id,
          s |-> UnpinPageIn([SetNode(r.s, r.frame, LeafNew(Node(r.s, r.frame)))
                                EXCEPT !.kind[r.id] = "leaf"],
                            r.id, TRUE).s]

\* SimpleBTree::CreateLeafPage
CreateLeafPage(s) == InitLeafPage(Pinning(NewPageIn(s)))

\* SimpleBTree::CreateInternalPage once NewPage returned r
InitInternalPage(r) ==
    IF r.frame = NoFrame
    THEN [id |-> INVALID_PAGE_ID, s |-> r.s]
    ELSE [id |-> r.id,
          s |-> UnpinPageIn([SetNode(r.s, r.frame, InternalNew(Node(r.s, r.frame)))
                                EXCEPT !.kind[r.id] = "internal"],
                            r.id, TRUE).s]

\* SimpleBTree::CreateInternalPage
CreateInternalPage(s) == InitInternalPage(Pinning(NewPageIn(s)))

\* the page c that was created, fetched again: new_leaf = GetLeafNode(id),
\* new_internal = GetInternalNode(id)
GetCreated(c) == WithId(c.id, Pinning(FetchPageIn(c.s, c.id)))

\* SimpleBTree::FindLeafPageId once the root was fetched as p: the child of
\* the root that FindChild selects
ChildOfRoot(s, p, key) ==
    IF p.frame = NoFrame THEN [id |-> INVALID_PAGE_ID, s |-> p.s]
    ELSE [id |-> FindChild(Node(p.s, p.frame), key),
          s |-> UnpinPageIn(p.s, s.root, FALSE).s]

\* SimpleBTree::FindLeafPageId: the root if it is a leaf, else a child of
\* the root
FindLeafPageId(s, key) ==
    IF IsEmpty(s) THEN [id |-> INVALID_PAGE_ID, s |-> s]
    ELSE IF s.leaf THEN [id |-> s.root, s |-> s]
    ELSE ChildOfRoot(s, Pinning(FetchPageIn(s, s.root)), key)

\* SimpleBTree::FindLeafNode: GetLeafNode(FindLeafPageId(key))
FindLeafNode(fl) == WithId(fl.id, GetLeafNode(fl.s, fl.id))

\* SimpleBTree::CreateNewRoot, the right child r fetched as a leaf
NewRootRight(id, r, right_page_id) ==
    IF r.frame = NoFrame THEN Crash(r.s)
    ELSE UnpinPageIn([UnpinPageIn(SetWord(r.s, r.frame, LeafParentAt, id),
                                  right_page_id, TRUE).s
                         EXCEPT !.root = id, !.leaf = FALSE],
                     id, TRUE).s

\* SimpleBTree::CreateNewRoot, the left child l fetched as a leaf
NewRootLeft(id, l, left_page_id, right_page_id) ==
    IF l.frame = NoFrame THEN Crash(l.s)
    ELSE NewRootRight(id,
                      GetLeafNode(UnpinPageIn(SetWord(l.s, l.frame,
                                                      LeafParentAt, id),
                                              left_page_id, TRUE).s,
                                  right_page_id),
                      right_page_id)

\* SimpleBTree::CreateNewRoot, the new root page g created and fetched
NewRootInit(g, left_page_id, key, right_page_id) ==
    IF g.frame = NoFrame THEN Crash(g.s)
    ELSE NewRootLeft(g.id,
                     GetLeafNode(SetNode(g.s, g.frame,
                                         [Node(g.s, g.frame) EXCEPT
                                             ![KeyAt(0)] = key,
                                             ![ChildAt(0)] = left_page_id,
                                             ![ChildAt(1)] = right_page_id,
                                             ![NumKeysAt] = 1]),
                                 left_page_id),
                     left_page_id, right_page_id)

\* SimpleBTree::CreateNewRoot
CreateNewRoot(s, left_page_id, key, right_page_id) ==
    NewRootInit(GetCreated(CreateInternalPage(s)),
                left_page_id, key, right_page_id)

RECURSIVE InsertIntoParent(_, _, _, _)
RECURSIVE SimpleBTree_Insert(_, _, _)

\* SimpleBTree::SplitInternalNode, the new page g created and fetched;
\* internal is the pointer into frame f
SplitInternalInto(g, f, internal_page_id) ==
    IF g.frame = NoFrame THEN Crash(g.s)
    ELSE
    LET internal == Node(g.s, f)
        fresh == Node(g.s, g.frame)
        split_point == MAX_KEYS \div 2
        nk == NumKeys(internal)
        promote_key == Key(internal, split_point)
        new_internal ==
            [i \in 1 .. NodeWords |->
                IF i = NumKeysAt THEN nk - split_point - 1
                ELSE IF i >= KeyAt(0) /\ i <= KeyAt(nk - split_point - 2)
                THEN internal[i + split_point + 1]
                ELSE IF i >= ChildAt(0) /\ i <= ChildAt(nk - split_point - 1)
                THEN internal[i + split_point + 1]
                ELSE IF i = InternalParentAt THEN internal[InternalParentAt]
                ELSE fresh[i]]
        s1 == SetNode(SetNode(g.s, g.frame, new_internal), f,
                      [internal EXCEPT ![NumKeysAt] = split_point])
    IN  IF internal[InternalParentAt] = INVALID_PAGE_ID
        THEN CreateNewRoot(UnpinPageIn(s1, g.id, TRUE).s,
                           internal_page_id, promote_key, g.id)
        ELSE InsertIntoParent(UnpinPageIn(s1, g.id, TRUE).s,
                              internal_page_id, promote_key, g.id)

\* SimpleBTree::SplitInternalNode
SplitInternalNode(s, f, internal_page_id) ==
    SplitInternalInto(GetCreated(CreateInternalPage(s)), f, internal_page_id)

\* SimpleBTree::InsertIntoParent, the parent split as t: the insertion is
\* tried again
RetryParent(t, parent_page_id, left_page_id, key, right_page_id) ==
    IF t.crash THEN t
    ELSE InsertIntoParent(Promoting(UnpinPageIn(t, parent_page_id, TRUE).s),
                          left_page_id, key, right_page_id)

\* SimpleBTree::InsertIntoParent, the parent p fetched
IntoParent(p, left_page_id, key, right_page_id) ==
    IF p.frame = NoFrame THEN Crash(p.s)
    ELSE IF ~IsFull(Node(p.s, p.frame))
    THEN UnpinPageIn(SetNode(p.s, p.frame,
                             InternalInsert(Node(p.s, p.frame), key,
                                            right_page_id)),
                     p.id, TRUE).s
    ELSE RetryParent(SplitInternalNode(p.s, p.frame, p.id), p.id,
                     left_page_id, key, right_page_id)

\* SimpleBTree::InsertIntoParent, the left page l fetched: the parent id is
\* read from it as from a leaf
ParentOfLeft(l, left_page_id, key, right_page_id) ==
    IF l.frame = NoFrame THEN Crash(l.s)
    ELSE IntoParent(WithId(Node(l.s, l.frame)[LeafParentAt],
                           GetInternalNode(UnpinPageIn(l.s, left_page_id,
                                                       FALSE).s,
                                           Node(l.s, l.frame)[LeafParentAt])),
                    left_page_id, key, right_page_id)

\* SimpleBTree::InsertIntoParent
InsertIntoParent(s, left_page_id, key, right_page_id) ==
    ParentOfLeft(GetLeafNode(s, left_page_id), left_page_id, key,
                 right_page_id)

\* SimpleBTree::SplitLeafNode, the new page g created and fetched; leaf is
\* the pointer into frame f
SplitLeafInto(g, f, leaf_page_id) ==
    IF g.frame = NoFrame THEN Crash(g.s)
    ELSE
    LET leaf == Node(g.s, f)
        fresh == Node(g.s, g.frame)
        split_point == MAX_KEYS \div 2
        nk == NumKeys(leaf)
        new_leaf ==
            [i \in 1 .. NodeWords |->
                IF i = NumKeysAt THEN nk - split_point
                ELSE IF i >= KeyAt(0) /\ i <= KeyAt(nk - split_point - 1)
                THEN leaf[i + split_point]
                ELSE IF i >= ValueAt(0)
                        /\ i <= ValueAt(nk - split_point - 1) + 1
                THEN leaf[i + 2 * split_point]
                ELSE IF i = NextLeafAt THEN leaf[NextLeafAt]
                ELSE IF i = LeafParentAt THEN leaf[LeafParentAt]
                ELSE fresh[i]]
        s1 == SetNode(SetNode(g.s, g.frame, new_leaf), f,
                      [leaf EXCEPT ![NumKeysAt] = split_point,
                                   ![NextLeafAt] = g.id])
        promote_key == new_leaf[KeyAt(0)]
    IN  IF leaf[LeafParentAt] = INVALID_PAGE_ID
        THEN CreateNewRoot(UnpinPageIn(s1, g.id, TRUE).s,
                           leaf_page_id, promote_key, g.id)
        ELSE InsertIntoParent(UnpinPageIn(s1, g.id, TRUE).s,
                              leaf_page_id, promote_key, g.id)

\* SimpleBTree::SplitLeafNode
SplitLeafNode(s, f, leaf_page_id) ==
    SplitLeafInto(GetCreated(CreateLeafPage(s)), f, leaf_page_id)

\* what a tree call returns: res is "true", "false", or "crash" when the
\* call dereferenced nullptr
Result(res, s) == [res |-> res, s |-> s]

Bool(b) == IF b THEN "true" ELSE "false"

\* SimpleBTree::Insert into the empty tree, the root page g created and
\* fetched
InsertFirst(g, key, value) ==
    IF g.frame = NoFrame THEN Result("crash", Crash(g.s))
    ELSE Result(Bool(LeafInsertOk(Node(g.s, g.frame), key)),
                UnpinPageIn(IF LeafInsertOk(Node(g.s, g.frame), key)
                            THEN SetNode(g.s, g.frame,
                                         LeafInsert(Node(g.s, g.frame), key,
                                                    value))
                            ELSE g.s,
                            g.id, TRUE).s)

\* root_page_id_ = CreateLeafPage(); is_root_leaf_ = true;
\* root = GetLeafNode(root_page_id_)
GetNewRoot(c) ==
    WithId(c.id, GetLeafNode([c.s EXCEPT !.root = c.id, !.leaf = TRUE], c.id))

\* SimpleBTree::Insert, the leaf split as t: the insertion is tried again
InsertRetry(t, leaf_page_id, key, value) ==
    IF t.crash THEN Result("crash", t)
    ELSE SimpleBTree_Insert(Retrying(UnpinPageIn(t, leaf_page_id, TRUE).s),
                            key, value)

\* SimpleBTree::Insert, the leaf g fetched
InsertAt(g, key, value) ==
    IF g.frame = NoFrame THEN Result("false", g.s)
    ELSE IF HasKey(Node(g.s, g.frame), key)
    THEN Result("false", UnpinPageIn(g.s, g.id, FALSE).s)
    ELSE IF ~IsFull(Node(g.s, g.frame))
    THEN Result("true",
                UnpinPageIn(SetNode(g.s, g.frame,
                                    LeafInsert(Node(g.s, g.frame), key, value)),
                            g.id, TRUE).s)
    ELSE InsertRetry(SplitLeafNode(g.s, g.frame, g.id), g.id, key, value)

\* SimpleBTree::Insert
SimpleBTree_Insert(s, key, value) ==
    IF IsEmpty(s)
    THEN InsertFirst(GetNewRoot(CreateLeafPage(s)), key, value)
    ELSE InsertAt(FindLeafNode(FindLeafPageId(s, key)), key, value)

\* RID::slot_num is a uint16_t: the low 16 bits of the word it lies in
SlotNum(w) == w % 65536

\* SimpleBTree::Search, the leaf g fetched: found, and the value copied to
\* *result
SearchAt(g, key) ==
    IF g.frame = NoFrame
    THEN [res |-> "false", val |-> <<>>, s |-> g.s]
    ELSE LET leaf == Node(g.s, g.frame)
             index == FindKey(leaf, key)
         IN  [res |-> Bool(HasKey(leaf, key)),
              val |-> IF HasKey(leaf, key)
                      THEN <<leaf[ValueAt(index)],
                             SlotNum(leaf[ValueAt(index) + 1])>>
                      ELSE <<>>,
              s |-> UnpinPageIn(g.s, g.id, FALSE).s]

\* SimpleBTree::Search
SimpleBTree_Search(s, key) ==
    IF IsEmpty(s) THEN [res |-> "false", val |-> <<>>, s |-> s]
    ELSE SearchAt(FindLeafNode(FindLeafPageId(s, key)), key)

\* SimpleBTree::Remove, the leaf g fetched: the root is unpinned
RemoveAt(g, key) ==
    IF g.frame = NoFrame THEN Result("false", g.s)
    ELSE Result(Bool(HasKey(Node(g.s, g.frame), key)),
                UnpinPageIn(IF HasKey(Node(g.s, g.frame), key)
                            THEN SetNode(g.s, g.frame,
                                         LeafRemove(Node(g.s, g.frame), key))
                            ELSE g.s,
                            g.s.root, HasKey(Node(g.s, g.frame), key)).s)

\* SimpleBTree::Remove
SimpleBTree_Remove(s, key) ==
    IF IsEmpty(s) THEN Result("false", s)
    ELSE RemoveAt(FindLeafNode(FindLeafPageId(s, key)), key)

(* The tree's calls as steps of the program.                                *)
\* the state a call is made in
Cur ==
    [pages |-> pages, page_table |-> page_table, free_list |-> free_list,
     lru_list |-> lru_list, num_pages |-> num_pages,
     dm_free_list |-> dm_free_list, file |-> file, io_fail |-> io_fail,
     root |-> root_page_id_, leaf |-> is_root_leaf_, kind |-> node_kind,
     crash |-> FALSE, starved |-> FALSE, over |-> FALSE, seen |-> {},
     retries |-> 0, promotions |-> 0]

\* the state a call leaves behind
Apply(s) ==
    /\ pages' = s.pages
    /\ page_table' = s.page_table
    /\ free_list' = s.free_list
    /\ lru_list' = s.lru_list
    /\ num_pages' = s.num_pages
    /\ dm_free_list' = s.dm_free_list
    /\ file' = s.file
    /\ io_fail' = s.io_fail
    /\ root_page_id_' = s.root
    /\ is_root_leaf_' = s.leaf
    /\ node_kind' = s.kind

\* the call record of a tree call: the key, what the call returned, the
\* value passed to insert or found by search, and whether a cache call made
\* within it found every frame pinned
TreeRet(op, arg, res, val, starved) ==
    [op |-> op, arg |-> arg, res |-> res, val |-> val, starved |-> starved]

\* the process is running: no call dereferenced nullptr
Running == ret.res # "crash"

\* the call stays within the bounds on pages and pins
Fits(s) == ~s.over /\ \A f \in TreeFrames : s.pages[f].pin <= TreeMaxPin

KeysOf(m) == {e[1] : e \in m}

\* the record id the caller passes with a key: RID(key, 0), and RID(key, 1)
\* when the map holds the key
RidFor(key) == <<key, IF key \in KeysOf(kv) THEN 1 ELSE 0>>

TreeInsert(key) ==
    LET r == SimpleBTree_Insert(Cur, key, RidFor(key)) IN
    /\ Running
    /\ Fits(r.s)
    /\ Apply(r.s)
    /\ kv' = IF r.res = "true" /\ key \notin KeysOf(kv)
             THEN kv \cup {<<key, RidFor(key)>>} ELSE kv
    /\ plain' = (plain /\ key \notin KeysOf(kv) /\ r.res = "true")
    /\ ret' = TreeRet("Insert", key, r.res, RidFor(key), r.s.starved)
    /\ UNCHANGED <<hist_vars, thread_vars, client_vars, removes, held>>

TreeSearch(key) ==
    LET r == SimpleBTree_Search(Cur, key) IN
    /\ Running
    /\ Fits(r.s)
    /\ Apply(r.s)
    /\ ret' = TreeRet("Search", key, r.res, r.val, r.s.starved)
    /\ UNCHANGED <<hist_vars, thread_vars, client_vars, kv, plain, removes, held>>

TreeRemove(key) ==
    LET r == SimpleBTree_Remove(Cur, key) IN
    /\ Running
    /\ removes < MaxRemoves
    /\ Fits(r.s)
    /\ Apply(r.s)
    /\ kv' = IF r.res = "true" THEN {e \in kv : e[1] # key} ELSE kv
    /\ plain' = FALSE
    /\ removes' = removes + 1
    /\ ret' = TreeRet("Remove", key, r.res, <<>>, r.s.starved)
    /\ UNCHANGED <<hist_vars, thread_vars, client_vars, held>>

\* a client besides the tree takes a page of the same pool before the first
\* insert into the tree and keeps it pinned from then on
ClientNewPage ==
    LET r == NewPageIn(Cur) IN
    /\ Running
    /\ Cardinality(held) < MaxHeld
    /\ IsEmpty(Cur)
    /\ Fits(r.s)
    /\ Apply(r.s)
    /\ held' = IF r.frame # NoFrame THEN held \cup {r.id} ELSE held
    /\ ret' = TreeRet("ClientNewPage", r.id,
                      IF r.frame # NoFrame THEN "page" ELSE "null", <<>>, FALSE)
    /\ UNCHANGED <<hist_vars, thread_vars, client_vars, kv, plain, removes>>

(* ---------------------------- specification ---------------------------- *)
\* BufferPoolManager's constructor on a DiskManager that created the file
Init ==
    /\ pages = [f \in Frames |-> ResetMemory]
    /\ page_table = [p \in PageIds |-> NoFrame]
    /\ free_list = [i \in 1 .. PoolSize |-> i - 1]
    /\ lru_list = <<>>
    /\ num_pages = 1
    /\ dm_free_list = <<>>
    /\ file = <<HeaderData>>
    /\ io_fail = FALSE
    /\ ret = Ret("Init", NoFrame, "void", NoFrame, NoFrame, {})
    /\ zero_order = <<>>
    /\ placed = <<>>
    /\ live = {}
    /\ expect = NoExpect
    /\ root_page_id_ = INVALID_PAGE_ID
    /\ is_root_leaf_ = TRUE
    /\ kv = {}
    /\ node_kind = [p \in TreePageIds |-> "none"]
    /\ plain = TRUE
    /\ removes = 0
    /\ held = {}
    /\ latch_ = 0
    /\ thr = <<>>
    /\ seq = <<>>
    /\ wrote = {}
    /\ last_page_id_ = INVALID_PAGE_ID

Next ==
    \/ \E id \in PageIds : FetchPage(id)
    \/ \E id \in PageIds, d \in BOOLEAN : UnpinPage(id, d)
    \/ \E id \in PageIds : FlushPage(id)
    \/ NewPage
    \/ \E id \in PageIds : DeletePage(id)
    \/ FlushAllPages
    \/ \E f \in Frames, v \in Vals : WriteData(f, v)
    \/ AllocatePage
    \/ \E id \in PageIds : DeallocatePage(id)

Spec == Init /\ [][Next]_vars

\* the callers that go through the buffer cache only
NextCache ==
    \/ \E id \in PageIds : FetchPage(id)
    \/ \E id \in PageIds, d \in BOOLEAN : UnpinPage(id, d)
    \/ \E id \in PageIds : FlushPage(id)
    \/ NewPage
    \/ \E id \in PageIds : DeletePage(id)
    \/ FlushAllPages
    \/ \E f \in Frames, v \in Vals : WriteData(f, v)

SpecCache == Init /\ [][NextCache]_vars

\* a SimpleBTree on a BufferPoolManager of TreePoolSize frames on a
\* DiskManager that created the file
TreeInit ==
    /\ pages = [f \in TreeFrames |-> NodeResetMemory]
    /\ page_table = [p \in TreePageIds |-> NoFrame]
    /\ free_list = [i \in 1 .. TreePoolSize |-> i - 1]
    /\ lru_list = <<>>
    /\ num_pages = 1
    /\ dm_free_list = <<>>
    /\ file = <<NodeHeaderData>>
    /\ io_fail = FALSE
    /\ ret = TreeRet("Init", NoFrame, "void", <<>>, FALSE)
    /\ zero_order = <<>>
    /\ placed = <<>>
    /\ live = {}
    /\ expect = NoExpect
    /\ root_page_id_ = INVALID_PAGE_ID
    /\ is_root_leaf_ = TRUE
    /\ kv = {}
    /\ node_kind = [p \in TreePageIds |-> "none"]
    /\ plain = TRUE
    /\ removes = 0
    /\ held = {}
    /\ latch_ = 0
    /\ thr = <<>>
    /\ seq = <<>>
    /\ wrote = {}
    /\ last_page_id_ = INVALID_PAGE_ID

TreeNext ==
    \/ \E key \in Keys : TreeInsert(key)
    \/ \E key \in Keys : TreeSearch(key)
    \/ \E key \in Keys : TreeRemove(key)
    \/ ClientNewPage

SpecTree == TreeInit /\ [][TreeNext]_vars

(* ------------------------------- claims -------------------------------- *)
CacheCall == {"FetchPage", "NewPage"}

AllPinned == \A f \in Frames : pages[f].pin > 0

OnFreeList(f) == InSeq(free_list, f)

InReplacer(f) == InSeq(lru_list, f)

\* C1: a page is never evicted while pinned. In every fetch or new_page
\* step the frame evicted, and the frame handed out on a miss, had pin
\* count 0 before the call, and every frame that was pinned keeps its page
\* id, payload, dirty bit and pins.
C1_NoEvictionWhilePinned ==
    [][ret'.op \in CacheCall =>
        /\ ret'.victim # NoFrame => pages[ret'.victim].pin = 0
        /\ (ret'.res = "page" /\ (ret'.op = "NewPage" \/ page_table[ret'.arg] = NoFrame))
              => pages[ret'.frame].pin = 0
        /\ \A f \in Frames :
              pages[f].pin > 0 =>
                /\ pages'[f].id = pages[f].id
                /\ pages'[f].val = pages[f].val
                /\ pages'[f].dirty = pages[f].dirty
                /\ pages'[f].pin >= pages[f].pin]_vars

\* C1 witness: a fetch or new_page evicted a frame while another frame was
\* pinned
C1_Witness ==
    /\ ret.op \in CacheCall
    /\ ret.victim # NoFrame
    /\ \E f \in Frames : f # ret.victim /\ pages[f].pin > 0

\* C2: no write to a dirty page is lost. When a page was released with
\* unpin(p, true) and only fetch and unpin calls, and new_page calls and
\* writes on other pages, came after, a successful fetch(p) returns the
\* payload as it was at that release.
C2_NoLostWrite ==
    [][(/\ ret'.op = "FetchPage"
        /\ ret'.res = "page"
        /\ expect # <<>>
        /\ expect[1] = ret'.arg)
         => pages'[ret'.frame].val = expect[2]]_vars

\* a frame is bound when it is not on the free-frame list
Bound(f) == ~OnFreeList(f)

\* C3: every frame is in exactly one of three situations: on the free list
\* (in no directory entry, pin count 0), in the replacer (the directory
\* maps its page id to it, pin count 0), or pinned (in neither list).
C3_FramePartition ==
    \A f \in Frames :
        \/ /\ OnFreeList(f) /\ ~InReplacer(f)
           /\ pages[f].pin = 0
           /\ \A p \in PageIds : page_table[p] # f
        \/ /\ InReplacer(f) /\ ~OnFreeList(f)
           /\ pages[f].pin = 0
           /\ pages[f].id \in PageIds
           /\ page_table[pages[f].id] = f
        \/ /\ pages[f].pin > 0
           /\ ~InReplacer(f) /\ ~OnFreeList(f)

\* C4: the directory is one-to-one between bound page ids and frames: no
\* two bound frames hold the same page id, every entry's frame holds the
\* entry's page id, and every bound frame has its directory entry.
C4_DirectoryOneToOne ==
    /\ \A f, g \in Frames :
          (Bound(f) /\ Bound(g) /\ f # g) => pages[f].id # pages[g].id
    /\ \A p \in PageIds :
          page_table[p] # NoFrame => pages[page_table[p]].id = p
    /\ \A f \in Frames :
          Bound(f) => (pages[f].id \in PageIds /\ page_table[pages[f].id] = f)

\* C5: after delete_page(id) returned true, id is on the disk free list
\* exactly once and is not in the directory.
C5_DeletedOnceOnFreeList ==
    (ret.op = "DeletePage" /\ ret.res = "true") =>
        /\ Count(dm_free_list, ret.arg) = 1
        /\ page_table[ret.arg] = NoFrame

\* C6: the disk free list holds no page id that is allocated and holds no
\* id twice.
C6_FreeListDisjointFromLive ==
    /\ \A id \in live : ~InSeq(dm_free_list, id)
    /\ \A id \in PageIds : Count(dm_free_list, id) <= 1

\* C7: with every frame pinned, a fetch of a page that is not resident
\* returns null and changes no pin count, dirty bit, directory entry or
\* replacer content.
C7_ExhaustedFetchFails ==
    [][(/\ ret'.op = "FetchPage"
        /\ AllPinned
        /\ page_table[ret'.arg] = NoFrame)
         => (/\ ret'.res = "null"
             /\ pages' = pages
             /\ page_table' = page_table
             /\ lru_list' = lru_list
             /\ free_list' = free_list)]_vars

\* C7 witness: a fetch of a non-resident page returned null with every
\* frame pinned, the frames holding distinct pages
C7_Witness ==
    /\ ret.op = "FetchPage" /\ ret.res = "null"
    /\ page_table[ret.arg] = NoFrame
    /\ AllPinned
    /\ \A f, g \in Frames : f # g => pages[f].id # pages[g].id

\* C8 as claimed: fetch returns null exactly when the free-frame list is
\* empty and every frame is pinned.
C8_NullIffAllPinned ==
    [][ret'.op = "FetchPage" =>
        (ret'.res = "null" <=> (Len(free_list) = 0 /\ AllPinned))]_vars

\* the dirty victim FindFreeFrame would pick cannot be written back
WriteBackFails ==
    /\ Len(free_list) = 0 /\ Len(lru_list) > 0
    /\ pages[lru_list[Len(lru_list)]].dirty
    /\ io_fail

\* C8 amended: fetch(id) returns null exactly when id is not resident and
\* either no frame can be freed (free-frame list empty and every frame
\* pinned), or the dirty victim's write-back fails, or the disk read of id
\* fails (id not below the page count, the stream in the failed state, or
\* the slot past the end of the file).
C8_NullIffNoFrameOrIoError ==
    [][ret'.op = "FetchPage" =>
        (ret'.res = "null" <=>
            /\ page_table[ret'.arg] = NoFrame
            /\ \/ Len(free_list) = 0 /\ AllPinned
               \/ WriteBackFails
               \/ ret'.arg >= num_pages'
               \/ io_fail
               \/ ret'.arg >= Len(file'))]_vars

\* C8 witness: a fetch returned null although a frame was free
C8_Witness ==
    /\ ret.op = "FetchPage" /\ ret.res = "null"
    /\ Len(free_list) > 0
    /\ ~AllPinned

\* C9 as claimed: the frame evicted is the unpinned resident frame whose
\* pin count reached 0 earliest.
C9_VictimIsEarliestUnpinned ==
    [][(ret'.op \in CacheCall /\ ret'.victim # NoFrame)
         => (Len(zero_order) > 0
             /\ ret'.victim = zero_order[Len(zero_order)])]_vars

\* C9 amended: the frame evicted is the tracked frame that was handed to
\* the replacer earliest, where a frame is handed to the replacer when its
\* pin count reaches 0 and again when its write-back as a victim fails; a
\* frame fetched and unpinned again counts from its latest unpin.
C9_VictimIsEarliestPlaced ==
    [][(ret'.op \in CacheCall /\ ret'.victim # NoFrame)
         => (Len(placed) > 0
             /\ ret'.victim = placed[Len(placed)])]_vars

\* C9 witness: a frame was evicted while the replacer tracked another frame
C9_Witness ==
    /\ ret.op \in CacheCall
    /\ ret.victim # NoFrame
    /\ \E f \in Frames : f # ret.victim /\ InReplacer(f)

\* C10 as claimed: every WritePage the cache issues is for a frame whose
\* dirty bit is set at that moment.
C10_OnlyDirtyWritten == \A w \in ret.writes : w[2]

\* C10 amended: every WritePage issued on eviction or by flush_all (and so
\* by the destructor) is for a frame whose dirty bit is set at that moment;
\* flush(id) writes the resident frame whether or not it is dirty.
C10_OnlyDirtyWrittenExceptFlush ==
    /\ ret.op # "FlushPage" => \A w \in ret.writes : w[2]
    /\ (ret.op = "FlushPage" /\ ret.frame # NoFrame)
         => \E w \in ret.writes : w[1] = ret.frame

\* C10 witness: an eviction wrote its dirty victim back
C10_Witness ==
    /\ ret.op \in CacheCall
    /\ ret.victim # NoFrame
    /\ <<ret.victim, TRUE>> \in ret.writes

\* C19: flush durability. When flush(id) returned true, the file slot of id
\* holds the content of every frame bound to id; when flush_all returned,
\* the file slot of every page that was bound and dirty at the call holds
\* that frame's content.
C19_FlushDurable ==
    [][/\ (ret'.op = "FlushPage" /\ ret'.res = "true") =>
            \A f \in Frames :
                (~InSeq(free_list', f) /\ pages'[f].id = ret'.arg) =>
                    /\ ret'.arg < Len(file')
                    /\ file'[ret'.arg + 1] = GetData(pages'[f])
       /\ ret'.op = "FlushAllPages" =>
            \A f \in Frames :
                (Bound(f) /\ pages[f].dirty) =>
                    /\ pages[f].id < Len(file')
                    /\ file'[pages[f].id + 1] = GetData(pages[f])]_vars

\* C20: pin counts never become negative. unpin(id, dirty) on a page that is
\* not in the directory or whose pin count is 0 returns false and leaves
\* pin counts, dirty bits, the directory and the replacer unchanged;
\* otherwise it returns true, takes exactly one pin from the page's frame
\* and from no other, and the frame is in the replacer afterwards exactly
\* when its count reached 0.
C20_UnpinNeverNegative ==
    [][/\ \A f \in Frames : pages[f].pin >= 0 /\ pages'[f].pin >= 0
       /\ ret'.op = "UnpinPage" =>
            IF page_table[ret'.arg] = NoFrame
               \/ pages[page_table[ret'.arg]].pin = 0
            THEN /\ ret'.res = "false"
                 /\ pages' = pages
                 /\ page_table' = page_table
                 /\ lru_list' = lru_list
            ELSE LET f == page_table[ret'.arg] IN
                 /\ ret'.res = "true"
                 /\ pages'[f].pin = pages[f].pin - 1
                 /\ \A g \in Frames \ {f} : pages'[g].pin = pages[g].pin
                 /\ InSeq(lru_list', f) <=> (pages'[f].pin = 0)
                 /\ \A g \in Frames \ {f} :
                        InSeq(lru_list', g) <=> InSeq(lru_list, g)]_vars

\* C20 witness: an unpin took the last pin of a frame, which is now in the
\* replacer, while another frame is still pinned
C20_Witness ==
    /\ ret.op = "UnpinPage" /\ ret.res = "true"
    /\ pages[ret.frame].pin = 0
    /\ InReplacer(ret.frame)
    /\ \E g \in Frames : g # ret.frame /\ pages[g].pin > 0

(* ------------------------- the tree as it is stored --------------------- *)
\* the data area of page p as the tree would be handed it: the frame's when
\* the page is resident, the file's otherwise
PageNode(p) ==
    IF page_table[p] # NoFrame THEN pages[page_table[p]].val
    ELSE IF p < Len(file) THEN file[p + 1].val
    ELSE ZeroWords

TreeOps == {"Insert", "Search", "Remove"}

\* the pages the tree created
Nodes == {p \in TreePageIds : node_kind[p] # "none"}

IsInternal(p) == p \in TreePageIds /\ node_kind[p] = "internal"

IsLeaf(p) == p \in TreePageIds /\ node_kind[p] = "leaf"

\* the keys stored in a page seen as a leaf, in slot order
LeafKeys(p) == [i \in 1 .. NumKeys(PageNode(p)) |-> Key(PageNode(p), i - 1)]

\* the children of an internal page
Children(p) == {Child(PageNode(p), i) : i \in 0 .. NumKeys(PageNode(p))}

\* the pages at depth d below p, following the children of internal pages
RECURSIVE Below(_, _)
Below(p, d) ==
    IF d = 0 THEN {p}
    ELSE IF ~IsInternal(p) THEN {}
    ELSE UNION {Below(c, d - 1) : c \in Children(p)}

Depths == 0 .. TreeMaxPages

\* the pages reachable from the root
Reachable ==
    IF root_page_id_ = INVALID_PAGE_ID THEN {}
    ELSE UNION {Below(root_page_id_, d) : d \in Depths}

\* the keys stored in the leaves of the subtree under p
SubtreeKeys(p) ==
    UNION {{LeafKeys(q)[i] : i \in 1 .. Len(LeafKeys(q))} :
              q \in {r \in UNION {Below(p, d) : d \in Depths} : IsLeaf(r)}}

\* the parent field of a page in the layout of its kind
ParentOf(p) ==
    IF IsInternal(p) THEN PageNode(p)[InternalParentAt]
    ELSE PageNode(p)[LeafParentAt]

\* the leftmost leaf: the first child, from the root down
RECURSIVE Leftmost(_, _)
Leftmost(p, fuel) ==
    IF fuel = 0 \/ ~IsInternal(p) THEN p
    ELSE Leftmost(Child(PageNode(p), 0), fuel - 1)

\* the keys met walking next_leaf from leaf p, at most fuel leaves
RECURSIVE ChainKeys(_, _)
ChainKeys(p, fuel) ==
    IF fuel = 0 \/ p \notin TreePageIds THEN <<>>
    ELSE LeafKeys(p) \o ChainKeys(PageNode(p)[NextLeafAt], fuel - 1)

LeafWalk ==
    IF root_page_id_ = INVALID_PAGE_ID THEN <<>>
    ELSE ChainKeys(Leftmost(root_page_id_, TreeMaxPages), TreeMaxPages)

\* the pages of the tree hold what they held before the step
NodesUnchanged ==
    /\ node_kind' = node_kind
    /\ root_page_id_' = root_page_id_
    /\ \A p \in Nodes : PageNode(p)' = PageNode(p)

\* the pin count of the frame that holds page p, 0 when p is not resident
PinOf(p) == IF page_table[p] # NoFrame THEN pages[page_table[p]].pin ELSE 0

PinsUnchanged == \A p \in TreePageIds : PinOf(p)' = PinOf(p)

\* no page is dirty after the step that was not dirty before it
DirtyOf(p) == page_table[p] # NoFrame /\ pages[page_table[p]].dirty

NothingDirtied == \A p \in TreePageIds : DirtyOf(p)' => DirtyOf(p)

\* search(key) in state s finds exactly what the map m of successful inserts
\* holds
SearchAgrees(s, m, key) ==
    LET r == SimpleBTree_Search(s, key) IN
    IF key \in KeysOf(m) THEN r.res = "true" /\ <<key, r.val>> \in m
    ELSE r.res = "false"

(* ------------------------------- C11 ----------------------------------- *)
\* C11: after any sequence of inserts of distinct keys that all returned
\* true, on a pool no other client holds pages of, search(k) returns the
\* value inserted with k for every inserted key and reports every other key
\* as not found.
C11_SearchFindsInserted ==
    (ret.op = "Search" /\ plain /\ held = {}) =>
        IF ret.arg \in KeysOf(kv)
        THEN ret.res = "true" /\ <<ret.arg, ret.val>> \in kv
        ELSE ret.res = "false"

(* ------------------------------- C12 ----------------------------------- *)
\* C12: after any sequence of inserts and removes, the walk along next_leaf
\* from the leftmost leaf meets the keys in strictly increasing order and
\* meets exactly the keys that are in the tree.
C12_LeafChainSorted ==
    Running =>
        /\ \A i, j \in 1 .. Len(LeafWalk) : i < j => LeafWalk[i] < LeafWalk[j]
        /\ {LeafWalk[i] : i \in 1 .. Len(LeafWalk)} = KeysOf(kv)

(* ------------------------------- C13 ----------------------------------- *)
\* C13: in every internal node reachable from the root, every key stored
\* under children[i] is >= keys[i-1] (for i > 0) and < keys[i] (for
\* i < num_keys).
C13_SeparatorKeys ==
    Running =>
        \A p \in Reachable : IsInternal(p) =>
            \A i \in 0 .. NumKeys(PageNode(p)) :
                \A k \in SubtreeKeys(Child(PageNode(p), i)) :
                    /\ i > 0 => k >= Key(PageNode(p), i - 1)
                    /\ i < NumKeys(PageNode(p)) => k < Key(PageNode(p), i)

(* ------------------------------- C14 ----------------------------------- *)
\* C14: the tree has exactly one root (the one node without a parent is
\* root_page_id_), every node the tree created is reachable from the root,
\* and all leaves are at the same depth.
C14_OneRootAllReachable ==
    (Running /\ root_page_id_ # INVALID_PAGE_ID) =>
        /\ {p \in Nodes : ParentOf(p) = INVALID_PAGE_ID} = {root_page_id_}
        /\ Nodes \subseteq Reachable
        /\ \A d, e \in Depths :
               (/\ \E p \in Below(root_page_id_, d) : IsLeaf(p)
                /\ \E p \in Below(root_page_id_, e) : IsLeaf(p)) => d = e

(* ------------------------------- C15 ----------------------------------- *)
\* C15: insert of a key that is in the tree returns false, changes no page
\* of the tree, splits nothing, marks no page dirty, and search of the key
\* afterwards returns the value it had.
C15_DuplicateRejected ==
    [][(ret'.op = "Insert" /\ ret'.res # "crash"
        /\ ret'.arg \in KeysOf(kv)) =>
            /\ ret'.res = "false"
            /\ NodesUnchanged
            /\ NothingDirtied
            /\ SearchAgrees(Cur', kv', ret'.arg)]_vars

(* ------------------------------- C16 ----------------------------------- *)
\* C16: when insert, search or remove returns, every page has the pin count
\* it had when the operation was called.
C16_PinBalance ==
    [][(ret'.op \in TreeOps /\ ret'.res # "crash") => PinsUnchanged]_vars

(* ------------------------------- C17 ----------------------------------- *)
\* C17: remove(k) returns true exactly when k is in the tree; after it
\* returned true k is not found and every other key keeps its value; a
\* remove of an absent key leaves the tree unchanged.
C17_RemoveExact ==
    [][(ret'.op = "Remove" /\ ret'.res # "crash") =>
            /\ (ret'.res = "true") = (ret'.arg \in KeysOf(kv))
            /\ \A k \in Keys : SearchAgrees(Cur', kv', k)
            /\ ret'.res = "false" => NodesUnchanged]_vars

(* ------------------------------- C18 ----------------------------------- *)
\* C18: when a cache call made inside insert, search or remove finds every
\* frame pinned, the operation returns false and leaves the pages of the
\* tree, the root and the pin counts as they were.
C18_StarvedFailsCleanly ==
    [][(ret'.op \in TreeOps /\ ret'.starved) =>
            /\ ret'.res = "false"
            /\ NodesUnchanged
            /\ PinsUnchanged]_vars

(* ------------------- eviction, write-back and the disk ------------------ *)
\* the slot of page id in the file f holds the content of the frame p
OnDisk(f, p) == p.id >= 0 /\ p.id < Len(f) /\ f[p.id + 1] = GetData(p)

\* a frame that holds a modified page which the directory does not lead to
\* and whose content is not in its slot of the file
Stranded(f) ==
    /\ Bound(f) /\ pages[f].dirty
    /\ page_table[pages[f].id] # f
    /\ ~OnDisk(file, pages[f])

\* C21: write-back precedes rebinding. In every fetch or new_page that
\* evicts a dirty frame, the victim's content is in its own slot of the file
\* when the call returns, and in no state is there a frame holding a
\* modified page that is neither in the directory nor in its slot on disk.
C21_WriteBackPrecedesRebinding ==
    [][/\ (/\ ret'.op \in CacheCall
           /\ ret'.victim # NoFrame
           /\ pages[ret'.victim].dirty)
            => OnDisk(file', pages[ret'.victim])
       /\ \A f \in Frames : ~Stranded(f)']_vars

\* C22: a failed write-back fails the call and keeps the victim. When the
\* write of the dirty victim fails in a fetch of a non-resident page or in
\* new_page, the call returns null, no frame changes its page id, content,
\* dirty bit or pin count, the directory is unchanged, the victim (dirty,
\* pin count 0) is tracked by the replacer again, and the page count and
\* the disk free list are unchanged.
C22_FailedWriteBackKeepsVictim ==
    [][(/\ ret'.op \in CacheCall
        /\ ret'.op = "FetchPage" => page_table[ret'.arg] = NoFrame
        /\ WriteBackFails)
         => (/\ ret'.res = "null"
             /\ pages' = pages
             /\ page_table' = page_table
             /\ free_list' = free_list
             /\ pages'[LRU_Victim(lru_list)].dirty
             /\ pages'[LRU_Victim(lru_list)].pin = 0
             /\ Count(lru_list', LRU_Victim(lru_list)) = 1
             /\ \A f \in Frames : InSeq(lru_list', f) <=> InSeq(lru_list, f)
             /\ num_pages' = num_pages
             /\ dm_free_list' = dm_free_list
             /\ file' = file)]_vars

\* C22 witness: a fetch or new_page returned null after the write of its
\* dirty victim failed; the victim is bound in the directory, dirty,
\* unpinned and in the replacer
C22_Witness ==
    /\ ret.op \in CacheCall /\ ret.res = "null"
    /\ \E w \in ret.writes :
          /\ w[2]
          /\ pages[w[1]].dirty /\ pages[w[1]].pin = 0
          /\ InReplacer(w[1])
          /\ page_table[pages[w[1]].id] = w[1]

(* ------------------------ threads on one cache -------------------------- *)
\* the threads calling into one BufferPoolManager
NumThreads == 2
\* calls one thread makes
MaxCalls == 2
\* the pages of the file the threads work on are 1 .. ThreadPages
ThreadPages == 2

Threads == 1 .. NumThreads

\* BufferPoolManager::FlushPage(id) in s
FlushPageIn(s, id) ==
    IF ~Resident(s, id) THEN [ok |-> FALSE, s |-> s]
    ELSE IF s.io_fail THEN [ok |-> FALSE, s |-> s]
    ELSE [ok |-> TRUE,
          s |-> [s EXCEPT
                   !.file = NodeWriteFile(@, id, GetData(s.pages[s.page_table[id]])),
                   !.num_pages = Max(@, id + 1),
                   !.pages[s.page_table[id]].dirty = FALSE]]

\* DiskManager::DeallocatePage throws for the header page and for ids that
\* are not below the page count
DeallocOkIn(s, id) == id # HEADER_PAGE_ID /\ id < s.num_pages

\* BufferPoolManager::DeletePage(id) in s once the frame is released
DeletePageOn(s, id) ==
    IF DeallocOkIn(s, id)
    THEN [res |-> "true", s |-> [s EXCEPT !.dm_free_list = Append(@, id)]]
    ELSE [res |-> "throw", s |-> s]

\* BufferPoolManager::DeletePage(id) in s
DeletePageIn(s, id) ==
    IF Resident(s, id) /\ s.pages[s.page_table[id]].pin > 0
    THEN [res |-> "false", s |-> s]
    ELSE IF Resident(s, id)
    THEN DeletePageOn([s EXCEPT
                         !.lru_list = LRU_Pin(@, s.page_table[id]),
                         !.page_table[id] = NoFrame,
                         !.pages[s.page_table[id]] = NodeResetMemory,
                         !.free_list = Append(@, s.page_table[id])], id)
    ELSE DeletePageOn(s, id)

\* what a call returned and the state it left
Done(res, frame, s) == [res |-> res, frame |-> frame, s |-> s]

FetchDone(r) == Done(IF r.frame = NoFrame THEN "null" ELSE "page", r.frame, r.s)

BoolDone(r) == Done(IF r.ok THEN "true" ELSE "false", NoFrame, r.s)

\* FetchPage when page_table_.find returned frame f
FetchHitIn(s, f) ==
    [frame |-> f,
     s |-> [s EXCEPT !.pages[f].pin = @ + 1, !.lru_list = LRU_Pin(@, f)]]

\* the call c made in s, from taking the latch to returning
CallIn(s, c) ==
    CASE c.op = "FetchPage" -> FetchDone(FetchPageIn(s, c.arg))
      [] c.op = "UnpinPage" -> BoolDone(UnpinPageIn(s, c.arg, c.dirty))
      [] c.op = "NewPage" -> FetchDone(NewPageIn(s))
      [] c.op = "FlushPage" -> BoolDone(FlushPageIn(s, c.arg))
      [] c.op = "DeletePage" -> Done(DeletePageIn(s, c.arg).res, NoFrame,
                                     DeletePageIn(s, c.arg).s)

\* a thread that is not in a call
IdleThread ==
    [pc |-> "idle", op |-> "none", arg |-> 0, dirty |-> FALSE, frame |-> NoFrame,
     res |-> "none", want |-> "none", calls |-> 0, miss |-> FALSE, conc |-> FALSE]

\* std::lock_guard<std::mutex> lock(latch_) goes on when the latch is free
LatchIgnored == TRUE

LatchFree == latch_ = 0

\* the part of the state the latch protects
Protected(s) == <<s.pages, s.page_table, s.free_list, s.lru_list>>

ThreadUnchanged ==
    UNCHANGED <<hist_vars, client_vars, kv, plain, removes, held, ret>>

PoolUnchanged ==
    UNCHANGED <<cache_vars, disk_vars, root_page_id_, is_root_leaf_, node_kind>>

\* thread t calls op(arg, dirty): it arrives at the lock_guard
Call(t, op, arg, dirty) ==
    /\ thr[t].pc = "idle"
    /\ thr[t].calls < MaxCalls
    /\ thr' = [u \in Threads |->
                 IF u = t
                 THEN [thr[t] EXCEPT
                         !.pc = "wait", !.op = op, !.arg = arg, !.dirty = dirty,
                         !.frame = NoFrame, !.res = "none", !.want = "none",
                         !.calls = @ + 1,
                         !.miss = (op = "FetchPage" /\ ~Resident(Cur, arg)),
                         !.conc = \E v \in Threads \ {t} : thr[v].pc # "idle"]
                 ELSE [thr[u] EXCEPT !.conc = @ \/ thr[u].pc # "idle"]]
    /\ UNCHANGED <<latch_, seq>>
    /\ PoolUnchanged /\ ThreadUnchanged

\* thread t takes the latch; the calls run one after the other in the order
\* of this step reach seq
Lock(t) ==
    /\ thr[t].pc = "wait"
    /\ LatchFree
    /\ latch_' = t
    /\ seq' = CallIn(seq, thr[t]).s
    /\ thr' = [thr EXCEPT ![t].pc = "locked",
                          ![t].want = CallIn(seq, thr[t]).res]
    /\ PoolUnchanged /\ ThreadUnchanged

\* FetchPage, lines 44-46: page_table_.find(page_id)
Lookup(t) ==
    /\ thr[t].pc = "locked" /\ thr[t].op = "FetchPage"
    /\ thr' = [thr EXCEPT ![t].pc = "found",
                          ![t].frame = IF Resident(Cur, thr[t].arg)
                                       THEN page_table[thr[t].arg] ELSE NoFrame]
    /\ UNCHANGED <<latch_, seq>>
    /\ PoolUnchanged /\ ThreadUnchanged

\* the call of thread t returns r: the state is the one it left, the latch
\* is released when the lock_guard goes out of scope
Return(t, r) ==
    /\ Apply(r.s)
    /\ latch_' = 0
    /\ thr' = [thr EXCEPT ![t].pc = "idle", ![t].res = r.res, ![t].frame = r.frame]
    /\ UNCHANGED seq
    /\ ThreadUnchanged

\* FetchPage from line 47 on, with what find returned
FetchRest(t) ==
    /\ thr[t].pc = "found"
    /\ Return(t, FetchDone(IF thr[t].frame # NoFrame
                           THEN FetchHitIn(Cur, thr[t].frame)
                           ELSE FetchMissIn(Cur, FindFreeFrameIn(Cur), thr[t].arg)))

\* the body of UnpinPage, NewPage, FlushPage or DeletePage
Body(t) ==
    /\ thr[t].pc = "locked" /\ thr[t].op # "FetchPage"
    /\ Return(t, CallIn(Cur, thr[t]))

\* a BufferPoolManager of PoolSize frames on a DiskManager that opened a file
\* holding the header page and the pages 1 .. ThreadPages
ThreadInit ==
    /\ pages = [f \in Frames |-> NodeResetMemory]
    /\ page_table = [p \in TreePageIds |-> NoFrame]
    /\ free_list = [i \in 1 .. PoolSize |-> i - 1]
    /\ lru_list = <<>>
    /\ num_pages = ThreadPages + 1
    /\ dm_free_list = <<>>
    /\ file = [i \in 1 .. ThreadPages + 1 |->
                 IF i = 1 THEN NodeHeaderData ELSE [id |-> i - 1, val |-> ZeroWords]]
    /\ io_fail = FALSE
    /\ ret = TreeRet("Init", NoFrame, "void", <<>>, FALSE)
    /\ zero_order = <<>>
    /\ placed = <<>>
    /\ live = {}
    /\ expect = NoExpect
    /\ root_page_id_ = INVALID_PAGE_ID
    /\ is_root_leaf_ = TRUE
    /\ kv = {}
    /\ node_kind = [p \in TreePageIds |-> "none"]
    /\ plain = TRUE
    /\ removes = 0
    /\ held = {}
    /\ latch_ = 0
    /\ thr = [t \in Threads |-> IdleThread]
    /\ seq = Cur
    /\ wrote = {}
    /\ last_page_id_ = INVALID_PAGE_ID

ThreadNext ==
    \/ \E t \in Threads, id \in 1 .. ThreadPages : Call(t, "FetchPage", id, FALSE)
    \/ \E t \in Threads, id \in 1 .. ThreadPages, d \in BOOLEAN :
          Call(t, "UnpinPage", id, d)
    \/ \E t \in Threads : Call(t, "NewPage", 0, FALSE)
    \/ \E t \in Threads, id \in 1 .. ThreadPages : Call(t, "FlushPage", id, FALSE)
    \/ \E t \in Threads, id \in 1 .. ThreadPages : Call(t, "DeletePage", id, FALSE)
    \/ \E t \in Threads : Lock(t)
    \/ \E t \in Threads : Lookup(t)
    \/ \E t \in Threads : FetchRest(t)
    \/ \E t \in Threads : Body(t)

SpecThreads == ThreadInit /\ [][ThreadNext]_vars

Quiescent == \A t \in Threads : thr[t].pc = "idle"

\* the frames bound to page p
FramesOf(p) == {f \in Frames : ~OnFreeList(f) /\ pages[f].id = p}

\* C23: cache calls are atomic under concurrency. Whenever no thread is in
\* a call, the frames (page id, content, pin count, dirty bit), the
\* directory, the free-frame list and the replacer are those reached by
\* running the same calls one after the other in the order they took the
\* latch, and every call returned what it returns in that order; when the
\* latest calls of two threads were overlapping fetches of the same page,
\* not resident when they were made, and both returned it, exactly one
\* frame is bound to the page, with pin count 2.
C23_CallsAtomic ==
    Quiescent =>
        /\ Protected(Cur) = Protected(seq)
        /\ \A t \in Threads : thr[t].res = thr[t].want
        /\ \A t, u \in Threads :
              (/\ t # u
               /\ thr[t].op = "FetchPage" /\ thr[u].op = "FetchPage"
               /\ thr[t].arg = thr[u].arg
               /\ thr[t].miss /\ thr[u].miss
               /\ thr[t].conc /\ thr[u].conc
               /\ thr[t].res = "page" /\ thr[u].res = "page")
                 => /\ Cardinality(FramesOf(thr[t].arg)) = 1
                    /\ page_table[thr[t].arg] \in FramesOf(thr[t].arg)
                    /\ pages[page_table[thr[t].arg]].pin = 2

\* C23 witness: two threads made overlapping fetches of the same page that
\* was not resident, both have returned it, and it is bound to one frame
\* with pin count 2
C23_Witness ==
    /\ Quiescent
    /\ thr[1].op = "FetchPage" /\ thr[2].op = "FetchPage"
    /\ thr[1].arg = thr[2].arg
    /\ thr[1].miss /\ thr[2].miss
    /\ thr[1].conc /\ thr[2].conc
    /\ thr[1].res = "page" /\ thr[2].res = "page"
    /\ pages[page_table[thr[1].arg]].pin = 2

(* ------------------------ the DiskManager alone ------------------------- *)
\* the page count of the file stays within this when the DiskManager is used alone
DiskMaxPages == 3

\* the header page as WriteHeaderPage lays it out: the magic number, then
\* num_pages_, the length of the free list and its entries
DiskHeader(np, fl) == [id |-> MAGIC_NUMBER, val |-> <<np, Len(fl)>> \o fl]

\* ReadHeaderPage: num_pages_ and the free list read from the header h
HeaderNumPages(h) == h.val[1]

HeaderFreeList(h) == SubSeq(h.val, 3, 2 + h.val[2])

\* the buffers a client passes to WritePage(id): its first word is the id
\* or not, the payload starts with a value
\* a client buffer laid out like a header page: magic number, page count 2,
\* one free id, the header page's own
HeaderShaped == DiskHeader(2, <<HEADER_PAGE_ID>>)

Bufs(id) ==
    {[id |-> i, val |-> [ZeroWords EXCEPT ![1] = v]] :
        i \in {id, HEADER_PAGE_ID}, v \in Vals}
    \cup (IF id = HEADER_PAGE_ID THEN {HeaderShaped} ELSE {})

\* the call record of a DiskManager call: out is the buffer ReadPage filled,
\* since the page ids written by the successful WritePage calls that came
\* one after the other up to this call
DiskRet(op, arg, res, out, since) ==
    [op |-> op, arg |-> arg, res |-> res, out |-> out, since |-> since]

DiskUnchanged ==
    UNCHANGED <<cache_vars, hist_order, expect, tree_vars, thread_vars,
                last_page_id_>>

\* the ids written by the run of successful WritePage calls ending now
WrittenInARow == IF ret.op = "WritePage" /\ ret.res = "ok" THEN ret.since ELSE {}

\* DiskManager::WritePage(id, buf) called by a client
DiskWritePage(id, buf) ==
    /\ Opened
    /\ DiskUnchanged
    /\ IF WriteOk
       THEN /\ file' = NodeWriteFile(file, id, buf)
            /\ num_pages' = Max(num_pages, id + 1)
            /\ wrote' = {e \in wrote : e[1] # id} \cup {<<id, buf>>}
            /\ ret' = DiskRet("WritePage", id, "ok", buf, WrittenInARow \cup {id})
       ELSE /\ ret' = DiskRet("WritePage", id, "throw", buf, {})
            /\ UNCHANGED <<file, num_pages, wrote>>
    /\ UNCHANGED <<dm_free_list, io_fail, live>>

\* DiskManager::ReadPage(id, out) called by a client
DiskReadPage(id) ==
    /\ Opened
    /\ DiskUnchanged
    /\ io_fail' = ReadFailBit(id, num_pages, file)
    /\ ret' = IF ReadOk(id, num_pages, file)
              THEN DiskRet("ReadPage", id, "ok", file[id + 1], {})
              ELSE DiskRet("ReadPage", id, "throw", NodeZeroData, {})
    /\ UNCHANGED <<file, num_pages, dm_free_list, live, wrote>>

\* the file after WriteHeaderPage: the writes do nothing on a stream in the
\* failed state, and nothing reports it
HeaderWritten ==
    IF WriteOk THEN NodeWriteFile(file, HEADER_PAGE_ID,
                                  DiskHeader(num_pages, dm_free_list))
    ELSE file

\* the DiskManager is destroyed (WriteHeaderPage, close) and a new one is
\* constructed on the same file (ReadHeaderPage), f being the file on disk
Reopen(f) ==
    /\ file' = f
    /\ wrote' = IF WriteOk THEN {e \in wrote : e[1] # HEADER_PAGE_ID} ELSE wrote
    /\ IF f[1].id = MAGIC_NUMBER
       THEN /\ num_pages' = HeaderNumPages(f[1])
            /\ dm_free_list' = HeaderFreeList(f[1])
            /\ io_fail' = FALSE
            /\ ret' = DiskRet("CloseReopen", 0, "ok", NodeZeroData, {})
       ELSE /\ ret' = DiskRet("CloseReopen", 0, "throw", NodeZeroData, {})
            /\ UNCHANGED <<num_pages, dm_free_list, io_fail>>

CloseReopen ==
    /\ Opened
    /\ DiskUnchanged
    /\ Reopen(HeaderWritten)
    /\ UNCHANGED live

\* the DiskManager constructor creating the file (InitializeHeaderPage)
DiskInit ==
    /\ pages = [f \in Frames |-> ResetMemory]
    /\ page_table = [p \in PageIds |-> NoFrame]
    /\ free_list = [i \in 1 .. PoolSize |-> i - 1]
    /\ lru_list = <<>>
    /\ num_pages = 1
    /\ dm_free_list = <<>>
    /\ file = <<DiskHeader(1, <<>>)>>
    /\ io_fail = FALSE
    /\ ret = DiskRet("Init", 0, "ok", NodeZeroData, {})
    /\ zero_order = <<>>
    /\ placed = <<>>
    /\ live = {}
    /\ expect = NoExpect
    /\ root_page_id_ = INVALID_PAGE_ID
    /\ is_root_leaf_ = TRUE
    /\ kv = {}
    /\ node_kind = [p \in TreePageIds |-> "none"]
    /\ plain = TRUE
    /\ removes = 0
    /\ held = {}
    /\ latch_ = 0
    /\ thr = <<>>
    /\ seq = <<>>
    /\ wrote = {}
    /\ last_page_id_ = INVALID_PAGE_ID

DiskAllocatePage == AllocatePageWithin(DiskMaxPages)

DiskNext ==
    \/ DiskAllocatePage
    \/ \E id \in PageIds : DeallocatePage(id)
    \/ \E id \in PageIds : \E buf \in Bufs(id) : DiskWritePage(id, buf)
    \/ \E id \in PageIds : DiskReadPage(id)
    \/ CloseReopen

SpecDisk == DiskInit /\ [][DiskNext]_vars

\* C24: free-list LIFO reuse. allocate_page returns the id at the back of
\* the free list, the one deallocated most recently of those on it, and
\* takes that entry off; with an empty free list it returns the page count
\* and increments it; an allocate_page right after a deallocate_page(id)
\* that was accepted returns id.
C24_FreeListLifo ==
    [][ret'.op = "AllocatePage" =>
         /\ IF Len(dm_free_list) > 0
            THEN /\ ret'.arg = dm_free_list[Len(dm_free_list)]
                 /\ dm_free_list' = SubSeq(dm_free_list, 1, Len(dm_free_list) - 1)
                 /\ num_pages' = num_pages
            ELSE /\ ret'.arg = num_pages
                 /\ num_pages' = num_pages + 1
                 /\ dm_free_list' = dm_free_list
         /\ (ret.op = "DeallocatePage" /\ ret.res = "void")
               => ret'.arg = ret.arg]_vars

\* C24 witness: allocate_page handed out an id from the free list while
\* another id is still on it
C24_Witness ==
    /\ ret.op = "AllocatePage"
    /\ Len(dm_free_list) > 0
    /\ dm_free_list[Len(dm_free_list)] # ret.arg

\* C25: close/reopen round trip. After the DiskManager is closed and the
\* file opened again, the page count and the free list are what they were
\* before the close, and every page id below the page count that
\* allocate_page handed out and that was written reads back as last written.
C25_CloseReopenRoundTrip ==
    [][ret'.op = "CloseReopen" =>
         /\ ret'.res = "ok"
         /\ num_pages' = num_pages
         /\ dm_free_list' = dm_free_list
         /\ \A e \in wrote :
               (e[1] \in live /\ e[1] < num_pages) =>
                  /\ e[1] < num_pages' /\ ~io_fail'
                  /\ e[1] < Len(file')
                  /\ file'[e[1] + 1] = e[2]]_vars

\* C26: disk round trip. A read_page(id) that follows write_page(id, buf),
\* with nothing but successful writes of other pages in between, succeeds
\* and returns buf; every successful read_page returns what was last
\* written to the page; write_page changes no slot but its own.
C26_DiskRoundTrip ==
    [][/\ (/\ ret'.op = "ReadPage"
           /\ ret.op = "WritePage" /\ ret.res = "ok"
           /\ ret'.arg \in ret.since)
            => ret'.res = "ok"
       /\ (ret'.op = "ReadPage" /\ ret'.res = "ok")
            => \A e \in wrote : e[1] = ret'.arg => ret'.out = e[2]
       /\ ret'.op = "WritePage"
            => \A i \in 1 .. Len(file) :
                  i # ret'.arg + 1 => file'[i] = file[i]]_vars

\* C26 witness: a page was written, then another page, and the read of the
\* first returned the buffer written
C26_Witness ==
    /\ ret.op = "ReadPage" /\ ret.res = "ok"
    /\ ret.arg # HEADER_PAGE_ID
    /\ <<ret.arg, ret.out>> \in wrote
    /\ \E e \in wrote : e[1] > ret.arg /\ e[2] # ret.out

(* ------------------------ the LRUReplacer alone ------------------------- *)
\* the frame ids passed to the replacer are 0 .. ReplacerSize - 1
ReplacerSize == 4

ReplacerFrames == 0 .. (ReplacerSize - 1)

ReplacerUnchanged ==
    UNCHANGED <<pages, page_table, free_list, disk_vars, hist_vars, tree_vars,
                thread_vars, client_vars>>

\* LRUReplacer::Unpin(f); the record says whether lru_hash_ held the frame
ReplacerUnpin(f) ==
    /\ lru_list' = LRU_Unpin(lru_list, f)
    /\ ret' = Ret("Unpin", f, IF InSeq(lru_list, f) THEN "moved" ELSE "added",
                  NoFrame, NoFrame, {})
    /\ ReplacerUnchanged

\* LRUReplacer::Pin(f)
ReplacerPin(f) ==
    /\ lru_list' = LRU_Pin(lru_list, f)
    /\ ret' = Ret("Pin", f, "void", NoFrame, NoFrame, {})
    /\ ReplacerUnchanged

\* LRUReplacer::Victim
ReplacerVictim ==
    /\ lru_list' = LRU_PopVictim(lru_list)
    /\ ret' = Ret("Victim", NoFrame,
                  IF LRU_Victim(lru_list) = NoFrame THEN "false" ELSE "true",
                  NoFrame, LRU_Victim(lru_list), {})
    /\ ReplacerUnchanged

ReplacerNext ==
    \/ \E f \in ReplacerFrames : ReplacerUnpin(f)
    \/ \E f \in ReplacerFrames : ReplacerPin(f)
    \/ ReplacerVictim

\* an LRUReplacer as constructed, called by a client of its own
SpecReplacer == Init /\ [][ReplacerNext]_vars

\* C27: LRUReplacer.unpin(f) is idempotent on membership and refreshes
\* recency. After unpin(f) the replacer holds f exactly once, at the
\* most-recently-unpinned end, whether or not it held f before; the size
\* grew by one exactly when f was absent; the other frames are in the order
\* they were in.
C27_UnpinRefreshes ==
    [][ret'.op = "Unpin" =>
         /\ Count(lru_list', ret'.arg) = 1
         /\ lru_list'[1] = ret'.arg
         /\ Len(lru_list') = Len(lru_list)
                             + (IF InSeq(lru_list, ret'.arg) THEN 0 ELSE 1)
         /\ Remove(lru_list', ret'.arg) = Remove(lru_list, ret'.arg)
         /\ \A g \in ReplacerFrames : Count(lru_list', g) <= 1]_vars

\* C27 witness: unpin was called for a frame the replacer already held among
\* at least three, and the frame is now the most recently unpinned
C27_Witness ==
    /\ ret.op = "Unpin" /\ ret.res = "moved"
    /\ Len(lru_list) >= 3
    /\ lru_list[1] = ret.arg

(* --------------------- a table heap on the cache ----------------------- *)
\* the page count stays within this under the table heap
HeapMaxPages == 4

\* TablePage::Init on the frame f: TablePage is laid over Page::GetData(), so
\* its first member next_page_id_ is the first 4 bytes of the frame, where
\* the page id is stored; tuple_count_, free_space_pointer_ and
\* deleted_tuple_count_ are bytes 4 .. 15, before the data area
TablePageInit(s, f) == [s EXCEPT !.pages[f].id = INVALID_PAGE_ID]

\* TableHeap::CreateNewPage from NewPage's return on, in the constructor:
\* last_page_id_ is INVALID_PAGE_ID there, so no page is linked
CreateNewPageOn(r) ==
    IF r.frame = NoFrame
    THEN [id |-> INVALID_PAGE_ID, s |-> r.s]
    ELSE [id |-> r.id, s |-> UnpinPageIn(TablePageInit(r.s, r.frame), r.id, TRUE).s]

\* TableHeap::CreateNewPage in s
CreateNewPageIn(s) == CreateNewPageOn(NewPageIn(s))

\* the call stays within the bounds on pages and pins
HeapFits(s) ==
    /\ ~s.over
    /\ s.num_pages <= HeapMaxPages
    /\ \A f \in Frames : s.pages[f].pin <= MaxPin

HeapUnchanged == UNCHANGED <<hist_vars, thread_vars, wrote, kv, plain, removes, held>>

\* TableHeap::TableHeap(buffer_pool_manager), first_page_id INVALID_PAGE_ID:
\* the first page of a new table is created
TableHeapNew ==
    /\ HeapFits(CreateNewPageIn(Cur).s)
    /\ Apply(CreateNewPageIn(Cur).s)
    /\ last_page_id_' = CreateNewPageIn(Cur).id
    /\ ret' = TreeRet("TableHeap", CreateNewPageIn(Cur).id,
                      "void", <<>>, FALSE)
    /\ HeapUnchanged

\* the arguments of a cache call
CacheCallOf(op, arg, dirty) == [op |-> op, arg |-> arg, dirty |-> dirty]

\* a cache call made by a client of the pool
HeapCacheCall(c) ==
    /\ HeapFits(CallIn(Cur, c).s)
    /\ Apply(CallIn(Cur, c).s)
    /\ ret' = TreeRet(c.op, c.arg, CallIn(Cur, c).res,
                      <<>>, FALSE)
    /\ UNCHANGED last_page_id_
    /\ HeapUnchanged

\* a BufferPoolManager of PoolSize frames on a DiskManager that created the
\* file, no table yet
HeapInit ==
    /\ pages = [f \in Frames |-> NodeResetMemory]
    /\ page_table = [p \in TreePageIds |-> NoFrame]
    /\ free_list = [i \in 1 .. PoolSize |-> i - 1]
    /\ lru_list = <<>>
    /\ num_pages = 1
    /\ dm_free_list = <<>>
    /\ file = <<NodeHeaderData>>
    /\ io_fail = FALSE
    /\ ret = TreeRet("Init", NoFrame, "void", <<>>, FALSE)
    /\ zero_order = <<>>
    /\ placed = <<>>
    /\ live = {}
    /\ expect = NoExpect
    /\ root_page_id_ = INVALID_PAGE_ID
    /\ is_root_leaf_ = TRUE
    /\ kv = {}
    /\ node_kind = [p \in TreePageIds |-> "none"]
    /\ plain = TRUE
    /\ removes = 0
    /\ held = {}
    /\ latch_ = 0
    /\ thr = <<>>
    /\ seq = <<>>
    /\ wrote = {}
    /\ last_page_id_ = INVALID_PAGE_ID

\* BufferPoolManager::FetchPage(id) by a client of the pool
HeapFetchPage(id) == HeapCacheCall(CacheCallOf("FetchPage", id, FALSE))

\* BufferPoolManager::UnpinPage(id, d) by a client of the pool
HeapUnpinPage(id, d) == HeapCacheCall(CacheCallOf("UnpinPage", id, d))

\* BufferPoolManager::NewPage by a client of the pool
HeapNewPage == HeapCacheCall(CacheCallOf("NewPage", 0, FALSE))

HeapNext ==
    \/ TableHeapNew
    \/ \E id \in 0 .. HeapMaxPages - 1 : HeapFetchPage(id)
    \/ \E id \in 0 .. HeapMaxPages - 1, d \in BOOLEAN : HeapUnpinPage(id, d)
    \/ HeapNewPage

SpecHeap == HeapInit /\ [][HeapNext]_vars

\* C28: the page id stored in a frame is the id it is bound under. For
\* every directory entry, the first 4 bytes of the frame it leads to hold
\* the entry's page id.
C28_StoredIdMatches ==
    \A p \in TreePageIds :
        page_table[p] # NoFrame => pages[page_table[p]].id = p

(* ------------------------------- C29 ----------------------------------- *)
\* the leaf whose key range contains key: from page p down, the child at
\* the smallest i with key < keys[i] (the last child when there is none),
\* until the page is not an internal one
RECURSIVE DescentFrom(_, _, _)
DescentFrom(p, key, fuel) ==
    IF fuel = 0 \/ ~IsInternal(p) THEN p
    ELSE DescentFrom(FindChild(PageNode(p), key), key, fuel - 1)

\* the page id FindLeafPageId(key) returns when called in this state
DescentResult(key) == FindLeafPageId(Cur, key).id

\* C29: the descent reaches a leaf. In every state of a non-empty tree and
\* for every key, the page id the descent used by insert, search and remove
\* returns is the id of a leaf page, the one reached from the root by
\* repeatedly taking the child at the smallest i with key < keys[i].
C29_DescentReachesLeaf ==
    (Running /\ root_page_id_ # INVALID_PAGE_ID) =>
        \A key \in Keys :
            DescentResult(key) # INVALID_PAGE_ID =>
                /\ IsLeaf(DescentResult(key))
                /\ DescentResult(key) =
                       DescentFrom(root_page_id_, key, TreeMaxPages)

(* ------------------------------- C30 ----------------------------------- *)
\* the step is a call of the tree that returned
TreeCallReturns == ret'.op \in TreeOps /\ ret'.res # "crash"

\* the step changed the node held in the frame of page p
NodeModified(p) == page_table'[p] # NoFrame /\ PageNode(p)' # PageNode(p)

\* C30: modified nodes are dirty. Whenever a tree operation changes the
\* node of a page that is in a frame when the operation returns, that
\* frame's dirty bit is set; and a successful remove on a leaf that is not
\* the root leaves that leaf's page dirty.
C30_ModifiedNodesDirty ==
    [][TreeCallReturns =>
          /\ \A p \in TreePageIds : NodeModified(p) => DirtyOf(p)'
          /\ (ret'.op = "Remove" /\ ret'.res = "true" /\ ~is_root_leaf_) =>
                 \A p \in TreePageIds :
                     (p = DescentResult(ret'.arg) /\ page_table'[p] # NoFrame)
                         => DirtyOf(p)']_vars

(* ------------------------------- C31 ----------------------------------- *)
\* C31: parent back-pointers agree with the children arrays. In every state,
\* for every internal node N reachable from the root and every page c in
\* N.children[0 .. num_keys], the node stored in c has parent = N; and the
\* root has no parent.
C31_ParentPointersAgree ==
    (Running /\ root_page_id_ # INVALID_PAGE_ID) =>
        /\ ParentOf(root_page_id_) = INVALID_PAGE_ID
        /\ \A p \in Reachable : IsInternal(p) =>
               \A c \in Children(p) :
                   c \in TreePageIds /\ ParentOf(c) = p

(* ------------------------------- C32 ----------------------------------- *)
\* the fewest keys a node other than the root may hold: ceil(MAX_KEYS / 2)
MinKeys == (MAX_KEYS + 1) \div 2

\* C32: after any sequence of inserts (no remove), every node reachable
\* from the root other than the root holds at least ceil(MAX_KEYS / 2) keys,
\* and no node holds more than MAX_KEYS keys.
C32_NodesHalfFull ==
    (Running /\ removes = 0 /\ root_page_id_ # INVALID_PAGE_ID) =>
        \A p \in Reachable \cap Nodes :
            /\ NumKeys(PageNode(p)) <= MAX_KEYS
            /\ p # root_page_id_ => NumKeys(PageNode(p)) >= MinKeys

(* ------------------------------- C33 ----------------------------------- *)
\* the node of page p in the state s a call left: the frame's when the page
\* is resident, the file's otherwise
NodeIn(s, p) ==
    IF s.page_table[p] # NoFrame THEN s.pages[s.page_table[p]].val
    ELSE IF p < Len(s.file) THEN s.file[p + 1].val
    ELSE ZeroWords

\* the pages at depth d below p in s
RECURSIVE BelowIn(_, _, _)
BelowIn(s, p, d) ==
    IF d = 0 THEN {p}
    ELSE IF p \notin TreePageIds \/ s.kind[p] # "internal" THEN {}
    ELSE UNION {BelowIn(s, Child(NodeIn(s, p), i), d - 1) :
                   i \in 0 .. NumKeys(NodeIn(s, p))}

\* the levels of the tree of s at which page p is found
LevelsIn(s, p) == {d \in Depths : p \in BelowIn(s, s.root, d)}

\* at no moment of the call that ended in s were two pages of one level
\* pinned together
NoLevelPinnedTwice(s) ==
    \A together \in s.seen :
        \A p, q \in together :
            p # q => LevelsIn(s, p) \cap LevelsIn(s, q) = {}

\* at no moment of the call that ended in s were two pages pinned together
AtMostOnePinned(s) == \A together \in s.seen : Cardinality(together) <= 1

\* the call's result r is one the program returns within the bounds
Returned(r) == ~r.s.crash /\ Fits(r.s)

\* C33: the tree's pin footprint. In every state and for every key, a
\* search made now holds at most one page pinned at any moment, and an
\* insert made now (with its leaf split, internal split and promotion)
\* never has two pages of the same tree level pinned at the same time.
C33_PinFootprint ==
    Running =>
        \A key \in Keys :
            /\ Returned(SimpleBTree_Search(Cur, key)) =>
                   AtMostOnePinned(SimpleBTree_Search(Cur, key).s)
            /\ Returned(SimpleBTree_Insert(Cur, key, RidFor(key))) =>
                   NoLevelPinnedTwice(SimpleBTree_Insert(Cur, key, RidFor(key)).s)

(* ------------------------------- C34 ----------------------------------- *)
\* the most times one insert call calls Insert again after a leaf split
MaxRetries == 2

\* the most times one insert call calls InsertIntoParent again after the
\* split of a parent
MaxPromotions == 1

\* insert(key) called in this state
InsertNow(key) == SimpleBTree_Insert(Cur, key, RidFor(key))

\* the pool supplied every frame the call asked for, and the call stayed
\* within the page budget
Supplied(r) == ~r.s.starved /\ ~r.s.over

\* C34: every insert call terminates. In every state and for every key, the
\* insert made now calls Insert again at most MaxRetries times and
\* InsertIntoParent again at most MaxPromotions times, and when the pool
\* supplied every frame it asked for it returns true or false.
C34_InsertTerminates ==
    Running =>
        \A key \in Keys :
            /\ InsertNow(key).s.retries <= MaxRetries
            /\ InsertNow(key).s.promotions <= MaxPromotions
            /\ Supplied(InsertNow(key)) =>
                   /\ InsertNow(key).res \in {"true", "false"}
                   /\ ~InsertNow(key).s.crash

\* C34 witness: the root is a full internal node, and an insert that splits
\* a leaf and the root, calls InsertIntoParent again and Insert twice again,
\* returns true
C34_Witness ==
    /\ Running
    /\ ~is_root_leaf_
    /\ IsFull(PageNode(root_page_id_))
    /\ \E key \in Keys :
           /\ InsertNow(key).s.retries = MaxRetries
           /\ InsertNow(key).s.promotions = MaxPromotions
           /\ InsertNow(key).res = "true"
           /\ Supplied(InsertNow(key))

(* ------------------------------- C35 ----------------------------------- *)
\* the step wrote the content frame f had before it to slot id of the file
WroteFrame(f, id) == id >= 0 /\ id < Len(file') /\ file'[id + 1] = GetData(pages[f])

\* the step cleared the dirty bit of frame f
DirtyCleared(f) == pages[f].dirty /\ ~pages'[f].dirty

\* C35: a dirty bit stays set until the frame is written or its page is
\* deleted. Every step that clears the dirty bit of a frame is a flush of
\* its page that returned true, a flush_all, or the eviction of the frame,
\* each having written the frame's content to the file, or a delete_page of
\* its page that returned true; so no unpin(id, false) and no failed write
\* clears it.
C35_DirtyStaysSet ==
    [][\A f \in Frames :
          DirtyCleared(f) =>
              \/ /\ ret'.op = "FlushPage" /\ ret'.res = "true"
                 /\ page_table[ret'.arg] = f
                 /\ WroteFrame(f, ret'.arg)
              \/ /\ ret'.op = "FlushAllPages"
                 /\ WroteFrame(f, pages[f].id)
              \/ /\ ret'.op \in CacheCall /\ ret'.victim = f
                 /\ WroteFrame(f, pages[f].id)
              \/ /\ ret'.op = "DeletePage" /\ ret'.res = "true"
                 /\ page_table[ret'.arg] = f]_vars

(* ------------------------------- C36 ----------------------------------- *)
\* the pages that are in the directory with the dirty bit set
DirtyInDirectory ==
    {p \in PageIds : page_table[p] # NoFrame /\ pages[page_table[p]].dirty}

\* C36: flush_all attempts a write for every resident dirty frame, whether
\* or not earlier writes failed. On every flush_all step WritePage was
\* called for exactly the frames that were resident and dirty; each of them
\* is either written to its slot and clean afterwards, or still dirty with
\* the file unchanged; and contents, pin counts, the directory, the
\* free-frame list and the replacer are unchanged.
C36_FlushAllAttemptsEvery ==
    [][ret'.op = "FlushAllPages" =>
          /\ ret'.writes = {<<page_table[p], TRUE>> : p \in DirtyInDirectory}
          /\ \A p \in DirtyInDirectory :
                 \/ WroteFrame(page_table[p], p) /\ ~pages'[page_table[p]].dirty
                 \/ pages'[page_table[p]].dirty /\ file' = file
          /\ \A f \in Frames :
                 /\ pages'[f].pin = pages[f].pin
                 /\ pages'[f].id = pages[f].id
                 /\ pages'[f].val = pages[f].val
                 /\ pages'[f].dirty => pages[f].dirty
          /\ page_table' = page_table
          /\ free_list' = free_list
          /\ lru_list' = lru_list]_vars

\* C36 witness: a flush_all on a failed stream called WritePage for two
\* dirty frames, one pinned, and both are still dirty
C36_Witness ==
    /\ ret.op = "FlushAllPages"
    /\ io_fail
    /\ Cardinality(ret.writes) = 2
    /\ \A w \in ret.writes : pages[w[1]].dirty
    /\ \E w \in ret.writes : pages[w[1]].pin > 0

\* C36 witness of the other case: a flush_all wrote two dirty frames, which
\* are clean afterwards
C36_WitnessWritten ==
    /\ ret.op = "FlushAllPages"
    /\ ~io_fail
    /\ Cardinality(ret.writes) = 2
    /\ \A w \in ret.writes : ~pages[w[1]].dirty

(* ------------------------------- C37 ----------------------------------- *)
\* deallocate_page(id) of the header page or of an id at or past page_count
DeallocRejected(id) == id = HEADER_PAGE_ID \/ id >= num_pages

\* the first half of C37: a rejected deallocate_page throws and leaves the
\* free list and page_count as they were
RejectedDeallocUnchanged ==
    (ret'.op = "DeallocatePage" /\ DeallocRejected(ret'.arg))
        => /\ ret'.res = "throw"
           /\ dm_free_list' = dm_free_list
           /\ num_pages' = num_pages

\* the header page is on the free list
HeaderPageFree == \E i \in 1 .. Len(dm_free_list) : dm_free_list[i] = HEADER_PAGE_ID

\* C37: deallocate_page(0) and deallocate_page(id) with id >= page_count
\* throw and leave the free list and page_count unchanged; page 0 is never
\* on the free list and allocate_page never returns it.
C37_HeaderPageNeverFree ==
    [][/\ RejectedDeallocUnchanged
       /\ ~HeaderPageFree'
       /\ ret'.op = "AllocatePage" => ret'.arg # HEADER_PAGE_ID]_vars

\* the first half of C37 alone
C37_RejectedDeallocUnchanged == [][RejectedDeallocUnchanged]_vars

(* ------------------------------- C38 ----------------------------------- *)
\* the pages the directory binds to a frame
ResidentPages(pt) == {p \in PageIds : pt[p] # NoFrame}

\* C38: a fetch that returns None leaves the cache as it was: the set of
\* resident pages, every pin count and every dirty bit are the same as
\* before the call, and no resident page was evicted.
C38_FailedFetchUnchanged ==
    [][(ret'.op = "FetchPage" /\ ret'.res = "null")
          => /\ ResidentPages(page_table') = ResidentPages(page_table)
             /\ \A f \in Frames : /\ pages'[f].pin = pages[f].pin
                                  /\ pages'[f].dirty = pages[f].dirty]_vars

(* ------------------------------- C39 ----------------------------------- *)
\* delete_page did not succeed: it returned false, or the disk manager
\* rejected the id and the call left with its exception
DeleteFailed(r) == r.op = "DeletePage" /\ r.res # "true"

\* C39: delete_page is all-or-nothing: when delete_page(id) does not
\* succeed, the directory, the free-frame list, the replacer, the frame
\* contents and the disk free list are all unchanged.
C39_DeleteAllOrNothing ==
    [][DeleteFailed(ret')
          => /\ page_table' = page_table
             /\ free_list' = free_list
             /\ lru_list' = lru_list
             /\ pages' = pages
             /\ dm_free_list' = dm_free_list]_vars

\* the pinned half of C39: a delete_page that returns false changes nothing
C39_PinnedDeleteUnchanged ==
    [][(ret'.op = "DeletePage" /\ ret'.res = "false")
          => /\ page_table' = page_table
             /\ free_list' = free_list
             /\ lru_list' = lru_list
             /\ pages' = pages
             /\ dm_free_list' = dm_free_list]_vars

(* ------------------------------- C40 ----------------------------------- *)
(* the header page and a growing free list: WriteHeaderPage fills a buffer
   of one page with the magic number, num_pages_, the length of the free
   list and its ids, without comparing the length with the room the page
   has. The page is scaled down to hold HeaderCapacity ids (1021 in the
   program); the cache and the disk specifications keep the free list
   within it. *)
\* ids that fit in the header page after its three leading words
HeaderCapacity == 2
\* the free list is not allowed to grow beyond this here
MaxHeaderFree == 3
\* the header page's size in bytes (PAGE_SIZE, scaled)
HeaderPageBytes == 12 + 4 * HeaderCapacity
\* bytes WriteHeaderPage stores for a free list of n ids
HeaderBytesNeeded(n) == 12 + 4 * n

\* what ids past the header buffer read as in ReadHeaderPage: the header
\* page's own id or an id past page_count
JunkIds == {HEADER_PAGE_ID, DiskMaxPages + 1}

\* the part of WriteHeaderPage's stores that lies inside the buffer it
\* writes to the file; the stores past the buffer's end go to the stack
HeaderInPage(np, fl) ==
    [id |-> MAGIC_NUMBER,
     val |-> <<np, Len(fl)>> \o SubSeq(fl, 1, IF Len(fl) <= HeaderCapacity
                                              THEN Len(fl) ELSE HeaderCapacity)]

\* ReadHeaderPage's loop over free_list_size ids: those past the buffer's
\* end are whatever the stack holds there
HeaderReadFreeList(h, junk) ==
    [i \in 1 .. h.val[2] |->
        IF i <= HeaderCapacity THEN h.val[2 + i] ELSE junk[i - HeaderCapacity]]

\* ReadHeaderPage reads past the buffer for this many ids
HeaderReadPast(h) ==
    IF h.val[2] > HeaderCapacity THEN h.val[2] - HeaderCapacity ELSE 0

HeaderAllocatePage == AllocatePageWithin(DiskMaxPages)

HeaderDeallocatePage(id) == DeallocatePageWithin(id, MaxHeaderFree)

\* close and reopen: the destructor's WriteHeaderPage, then the constructor's
\* ReadHeaderPage in a new process. With more ids than the page holds the
\* stores past the buffer are undefined behaviour: the header is written
\* with what is inside the buffer, or the process dies in the destructor
\* and the file keeps the old header.
HeaderCloseReopen ==
    /\ Opened
    /\ DiskUnchanged
    /\ \E written \in IF Len(dm_free_list) <= HeaderCapacity
                      THEN {TRUE} ELSE BOOLEAN :
         LET f == IF written /\ WriteOk
                  THEN NodeWriteFile(file, HEADER_PAGE_ID,
                                     HeaderInPage(num_pages, dm_free_list))
                  ELSE file
         IN /\ file' = f
            /\ num_pages' = HeaderNumPages(f[1])
            /\ \E junk \in [1 .. HeaderReadPast(f[1]) -> JunkIds] :
                  dm_free_list' = HeaderReadFreeList(f[1], junk)
            /\ ret' = DiskRet("CloseReopen", 0,
                              IF written THEN "ok" ELSE "died",
                              NodeZeroData, {})
    /\ UNCHANGED <<io_fail, live, wrote>>

HeaderNext ==
    \/ HeaderAllocatePage
    \/ \E id \in 0 .. DiskMaxPages : HeaderDeallocatePage(id)
    \/ HeaderCloseReopen

SpecHeader == DiskInit /\ [][HeaderNext]_vars

\* C40: the free list always fits in the header page: whenever the header
\* page is written on close, 12 + 4 * free_list_len is at most the page
\* size, and reopening recovers every free id.
C40_FreeListFitsHeader ==
    [][ret'.op = "CloseReopen"
          => /\ HeaderBytesNeeded(Len(dm_free_list)) <= HeaderPageBytes
             /\ dm_free_list' = dm_free_list]_vars

\* a free list that fits is recovered by the reopen
C40_FittingListRecovered ==
    [][(/\ ret'.op = "CloseReopen"
        /\ HeaderBytesNeeded(Len(dm_free_list)) <= HeaderPageBytes)
          => dm_free_list' = dm_free_list]_vars


====
